---------------------------- MODULE Spec2Model ----------------------------
(***************************************************************************)
(* Model of huawei-solar-mqtt-relay: the Modbus TCP connection multiplexer *)
(* (internal/modbus/client.go), the login handshake (internal/solar/       *)
(* login.go) and the register reads (internal/modbus/client_registers.go)  *)
(* that run over it, the device-info call (internal/solar/client.go), the  *)
(* ADU framing, the broadcast hello (internal/solar/broadcast.go) and the  *)
(* agent's connect, login, poll and recovery code (runAgent).              *)
(*                                                                         *)
(* Each goroutine is a process with a program counter; unbuffered channels *)
(* (aduTxCh, aduRxCh) are rendezvous steps, the per-call result channel is *)
(* a buffer of capacity 1, a select with several ready cases is a          *)
(* nondeterministic choice among them.                                     *)
(***************************************************************************)
EXTENDS Integers, Sequences, FiniteSets, TLC

(***************************************************************************)
(* Bounds of the model.                                                    *)
(***************************************************************************)
\* Number of FunctionCall invocations (call slots); slot c is the c-th call
\* to mint a transaction id.
NumCalls == 3
\* Size of the transaction id space: 2^16 in the program (uint16), scaled
\* down so that the wrap-around of the counter is reachable.
TxIdSpace == 2
\* Number of Run invocations on the one ModbusConn.
NumRuns == 2
\* Frames the device has sent that the receiver has not read yet.
MaxWire == 2
\* Frames the device sends in one behaviour.
MaxFrames == 2

\* Number of calls made while the loops come and go (LifeSpec).
LifeCalls == 1
\* Connections the agent's dials establish.
MaxConns == 3
\* Ticks of the agent's query goroutine.
MaxPolls == 3
\* Ticks of the query goroutine while the publisher is watched (PipeSpec).
MaxRecords == 12

Calls == 1..NumCalls
Runs == 1..NumRuns
TxIds == 0..(TxIdSpace - 1)
\* The counter is a uint32: 2^32 = (2^16)^2.
CounterSpace == TxIdSpace * TxIdSpace

\* NewModbusConn: txId.Store(1234)
InitialTxId == 1234
\* NewModbusConn's slaveId argument (cfg.Modbus.SlaveID)
SlaveId == 1

(***************************************************************************)
(* ADUs.                                                                   *)
(***************************************************************************)
\* uint16(x)
U16(x) == x % TxIdSpace

\* The request FunctionCall builds.
RequestADU(tid, fc, data) ==
  [tid |-> tid, pid |-> 0, len |-> (Len(data) + 2) % 65536, uid |-> SlaveId,
   fc |-> fc, data |-> data]

\* A well-formed frame sent by the device.
ResponseADU(tid, fc, data) ==
  [tid |-> tid, pid |-> 0, len |-> Len(data) + 2, uid |-> SlaveId,
   fc |-> fc, data |-> data]

\* A frame whose protocol id is not 0: Scan rejects it.
BadFrame == [tid |-> 0, pid |-> 1, len |-> 2, uid |-> SlaveId, fc |-> 0, data |-> <<>>]

\* ModbusTCPADU.Scan succeeds on a frame.
ScanOk(f) == f.pid = 0 /\ f.len >= 2

\* Function codes
FcReadHolding == 3
FcLogin == 65

\* Payloads of the responses to plain calls.
MuxPayloads == {<<2, 0, 100>>}
\* Data of the request of a plain call.
MuxRequestData == <<0, 1, 0, 1>>

VARIABLES
  txId,        \* ModbusConn.txId (the uint32 counter)
  waiters,     \* ModbusConn.waiters: set of [tid, ch]; ch is the call that made the channel
  waitersMu,   \* ModbusConn.waitersMu: 0 free, s held by the fanout of Run s
  pc,          \* pc[c]: position of FunctionCall c
  callTid,     \* transactionID of call c
  callReq,     \* req of call c (<<>> before it is built)
  callCtx,     \* the context call c was given
  chanBuf,     \* resultCh of call c: a buffer of capacity 1
  result,      \* what call c returned: [adu, err]
  ctxDone,     \* ctxDone[k]: context k is cancelled or past its deadline
  runPc,       \* Run s: "idle", "running", "returned"
  parentDone,  \* parentCtx of Run s is cancelled
  rxPc, rxPkt, \* receiver of Run s
  txPc, txPkt, \* transmitter of Run s
  fanPc, fanPkt, fanCh, \* fanout of Run s
  arrival,     \* history: the position in the stream of the ADU the receiver (rx)
               \* and the fanout (fan) of Run s hold, and the positions of the
               \* ADUs looked up so far, in the order of the lookups
  wire,        \* frames sent by the device, not yet read from the socket
  written,     \* ADUs written to the socket, in order
  connClosed,  \* conn.Close() was called
  peerClosed,  \* the device closed or reset the connection
  framesSent,  \* number of frames the device has sent
  regAt,       \* history: number of ids minted when call c registered its entry
  delivered,   \* history: number of ADUs the fanout put in the channel of call c
  loginPc,     \* position of Login
  loginChallenge, \* firstChallenge of Login
  loginErr,    \* what Login returned
  readPc,      \* position of the register read in progress
  readArgs,    \* its arguments: [address, quantityT, t, quantity]
  readRes,     \* what it returned: [values, results, err]
  qPc,         \* position of Query / QueryStructRegisters
  qSchema,     \* the fields of the struct Query fills
  qField,      \* index i of the field loop
  qRecord,     \* the struct d: qRecord[i] is <<>> until field i is set
  qOut,        \* what Query returned: [rec, err]
  agentPc,     \* position of runAgent's connect, login and query code
  inverter,    \* runAgent's inverter: 0 is nil, g the g-th client made
  conns,       \* history: what was done on each connection made
  backoff,     \* handleQueryError: backoff, in seconds
  attempts,    \* handleQueryError: attempts
  polls,       \* number of ticks of the query goroutine so far
  dialed,      \* history: flips at every dial
  infoPc,      \* position of QueryDeviceInfos
  infoHeader,  \* the bytes of the summary header it has read
  infoCursor,  \* cursor
  infoObjs,    \* objs
  aduIn,       \* the ADU handed to Marshal
  aduBytes,    \* the bytes of a frame: what Marshal returned, or what arrived
  aduOut,      \* what Scan made of aduBytes: [adu, err]
  dataCh,      \* runAgent's dataCh: the records queued, by the tick that made them
  pipePc,      \* positions of the query and the publisher goroutine
  pubD,        \* the record d the publisher has received
  published,   \* history: the records handed to mc.Publish, in order
  dropped      \* history: the records dropped at the full channel

callVars == <<txId, pc, callTid, callReq, callCtx, chanBuf, result, regAt, delivered>>
muxVars == <<runPc, parentDone, rxPc, rxPkt, txPc, txPkt, fanPc, fanPkt, fanCh, arrival>>
connVars == <<wire, written, connClosed, peerClosed, framesSent>>
loginVars == <<loginPc, loginChallenge, loginErr>>
regVars == <<readPc, readArgs, readRes, qPc, qSchema, qField, qRecord, qOut>>
agentVars == <<agentPc, inverter, conns, backoff, attempts, polls, dialed>>
infoVars == <<infoPc, infoHeader, infoCursor, infoObjs>>
codecVars == <<aduIn, aduBytes, aduOut>>
pipeVars == <<dataCh, pipePc, pubD, published, dropped>>
vars == <<waiters, waitersMu, ctxDone, callVars, muxVars, connVars, loginVars,
          regVars, agentVars, infoVars, codecVars, pipeVars>>

NoResult == [adu |-> <<>>, err |-> "none"]
NoRead == [address |-> 0, quantityT |-> 0, t |-> "", quantity |-> 0]
NoReadResult == [values |-> <<>>, results |-> <<>>, err |-> "none"]

\* NewModbusConn, and no call, Run or Login started.
Init ==
  /\ txId = InitialTxId % CounterSpace
  /\ waiters = {}
  /\ waitersMu = 0
  /\ pc = [c \in Calls |-> "idle"]
  /\ callTid = [c \in Calls |-> 0]
  /\ callReq = [c \in Calls |-> <<>>]
  /\ callCtx = [c \in Calls |-> c]
  /\ chanBuf = [c \in Calls |-> <<>>]
  /\ result = [c \in Calls |-> NoResult]
  /\ ctxDone = [k \in Calls |-> FALSE]
  /\ runPc = [s \in Runs |-> "idle"]
  /\ parentDone = [s \in Runs |-> FALSE]
  /\ rxPc = [s \in Runs |-> "idle"]
  /\ rxPkt = [s \in Runs |-> <<>>]
  /\ txPc = [s \in Runs |-> "idle"]
  /\ txPkt = [s \in Runs |-> <<>>]
  /\ fanPc = [s \in Runs |-> "idle"]
  /\ fanPkt = [s \in Runs |-> <<>>]
  /\ fanCh = [s \in Runs |-> 0]
  /\ arrival = [rx |-> [s \in Runs |-> 0], fan |-> [s \in Runs |-> 0], lookups |-> <<>>]
  /\ wire = <<>>
  /\ written = <<>>
  /\ connClosed = FALSE
  /\ peerClosed = FALSE
  /\ framesSent = 0
  /\ regAt = [c \in Calls |-> 0]
  /\ delivered = [c \in Calls |-> 0]
  /\ loginPc = "idle"
  /\ loginChallenge = <<>>
  /\ loginErr = "none"
  /\ readPc = "idle"
  /\ readArgs = NoRead
  /\ readRes = NoReadResult
  /\ qPc = "idle"
  /\ qSchema = <<>>
  /\ qField = 0
  /\ qRecord = <<>>
  /\ qOut = [rec |-> <<>>, err |-> "none"]
  /\ agentPc = "start"
  /\ inverter = 0
  /\ conns = <<>>
  /\ backoff = 0
  /\ attempts = 0
  /\ polls = 0
  /\ dialed = FALSE
  /\ infoPc = "idle"
  /\ infoHeader = <<>>
  /\ infoCursor = <<>>
  /\ infoObjs = <<>>
  /\ aduIn = <<>>
  /\ aduBytes = <<>>
  /\ aduOut = [adu |-> <<>>, err |-> "none"]
  /\ dataCh = <<>>
  /\ pipePc = [query |-> "select", publisher |-> "select"]
  /\ pubD = <<>>
  /\ published = <<>>
  /\ dropped = {}

(***************************************************************************)
(* FunctionCall                                                            *)
(***************************************************************************)
\* Number of ids minted so far (slot c mints c-th).
Minted == Cardinality({c \in Calls : pc[c] # "idle"})

CtxDone(c) == ctxDone[callCtx[c]]

\* transactionID := uint16(c.txId.Add(1)); req := &ModbusTCPADU{...}
FunctionCallMint(c, k, fc, data) ==
  /\ pc[c] = "idle"
  /\ IF c = 1 THEN TRUE ELSE pc[c - 1] # "idle"
  /\ txId' = (txId + 1) % CounterSpace
  /\ callTid' = [callTid EXCEPT ![c] = U16(txId')]
  /\ callReq' = [callReq EXCEPT ![c] = <<RequestADU(U16(txId'), fc, data)>>]
  /\ callCtx' = [callCtx EXCEPT ![c] = k]
  /\ pc' = [pc EXCEPT ![c] = "waiter"]
  /\ UNCHANGED <<chanBuf, result, regAt, delivered>>

\* Mutant of WaitersInsert: the new entry is added beside the old one.
WaitersInsertBeside(tid, ch) == waiters \cup {[tid |-> tid, ch |-> ch]}

\* c.waiters[transactionID] = make(chan *ModbusTCPADU, 1)
WaitersInsert(tid, ch) ==
  {w \in waiters : w.tid # tid} \cup {[tid |-> tid, ch |-> ch]}

\* Mutant of Waiter: the entry is inserted without waitersMu.
WaiterUnlocked(c) ==
  /\ pc[c] = "waiter"
  /\ waiters' = WaitersInsert(callTid[c], c)
  /\ chanBuf' = [chanBuf EXCEPT ![c] = <<>>]
  /\ regAt' = [regAt EXCEPT ![c] = Minted]
  /\ pc' = [pc EXCEPT ![c] = "send"]
  /\ UNCHANGED <<txId, callTid, callReq, callCtx, result, delivered>>
  /\ UNCHANGED <<waitersMu, ctxDone, muxVars, connVars, loginVars, regVars, agentVars, infoVars, codecVars, pipeVars>>

\* resultCh := c.waiter(transactionID), under waitersMu
Waiter(c) ==
  /\ pc[c] = "waiter"
  /\ waitersMu = 0
  /\ waiters' = WaitersInsert(callTid[c], c)
  /\ chanBuf' = [chanBuf EXCEPT ![c] = <<>>]
  /\ regAt' = [regAt EXCEPT ![c] = Minted]
  /\ pc' = [pc EXCEPT ![c] = "send"]
  /\ UNCHANGED <<txId, callTid, callReq, callCtx, result, delivered>>
  /\ UNCHANGED <<waitersMu, ctxDone, muxVars, connVars, loginVars, regVars, agentVars, infoVars, codecVars, pipeVars>>

\* Mutant of SendRequest: the request is handed over before the entry is
\* registered.
SendRequestUnregistered(c, s) ==
  /\ pc[c] \in {"waiter", "send"}
  /\ txPc[s] = "select"
  /\ txPc' = [txPc EXCEPT ![s] = "write"]
  /\ txPkt' = [txPkt EXCEPT ![s] = callReq[c]]
  /\ pc' = [pc EXCEPT ![c] = "await"]
  /\ UNCHANGED <<txId, callTid, callReq, callCtx, chanBuf, result, regAt, delivered>>
  /\ UNCHANGED <<runPc, parentDone, rxPc, rxPkt, fanPc, fanPkt, fanCh, arrival>>
  /\ UNCHANGED <<waiters, waitersMu, ctxDone, connVars, loginVars, regVars, agentVars, infoVars, codecVars, pipeVars>>

\* Mutant of SendRequest: the request is taken although the transmitter has
\* exited, as a buffered aduTxCh would take it.
SendRequestBuffered(c, s) ==
  /\ pc[c] = "send"
  /\ txPc[s] \in {"select", "exited"}
  /\ txPc' = [txPc EXCEPT ![s] = IF txPc[s] = "select" THEN "write" ELSE "exited"]
  /\ txPkt' = [txPkt EXCEPT ![s] = callReq[c]]
  /\ pc' = [pc EXCEPT ![c] = "await"]
  /\ UNCHANGED <<txId, callTid, callReq, callCtx, chanBuf, result, regAt, delivered>>
  /\ UNCHANGED <<runPc, parentDone, rxPc, rxPkt, fanPc, fanPkt, fanCh, arrival>>
  /\ UNCHANGED <<waiters, waitersMu, ctxDone, connVars, loginVars, regVars, agentVars, infoVars, codecVars, pipeVars>>

\* first select, case c.aduTxCh <- req: the transmitter of Run s takes it
SendRequest(c, s) ==
  /\ pc[c] = "send"
  /\ txPc[s] = "select"
  /\ txPc' = [txPc EXCEPT ![s] = "write"]
  /\ txPkt' = [txPkt EXCEPT ![s] = callReq[c]]
  /\ pc' = [pc EXCEPT ![c] = "await"]
  /\ UNCHANGED <<txId, callTid, callReq, callCtx, chanBuf, result, regAt, delivered>>
  /\ UNCHANGED <<runPc, parentDone, rxPc, rxPkt, fanPc, fanPkt, fanCh, arrival>>
  /\ UNCHANGED <<waiters, waitersMu, ctxDone, connVars, loginVars, regVars, agentVars, infoVars, codecVars, pipeVars>>

\* What the call returns on <-ctx.Done(): a nil ADU and the context's error.
CancelResult(phase) == [adu |-> <<>>, err |-> phase]

Return(c, res) ==
  /\ result' = [result EXCEPT ![c] = res]
  /\ pc' = [pc EXCEPT ![c] = "done"]

\* first select, case <-ctx.Done()
CancelSend(c) ==
  /\ pc[c] = "send"
  /\ CtxDone(c)
  /\ Return(c, CancelResult("cancelled waiting to send"))
  /\ UNCHANGED <<txId, callTid, callReq, callCtx, chanBuf, regAt, delivered>>
  /\ UNCHANGED <<waiters, waitersMu, ctxDone, muxVars, connVars, loginVars, regVars, agentVars, infoVars, codecVars, pipeVars>>

\* Mutant of CancelAwait: the second select has no <-ctx.Done() case.
CancelAwaitMissing(c) ==
  /\ FALSE
  /\ UNCHANGED vars

\* Mutant of CancelAwait: the cancelled call removes its entry.
CancelAwaitRemoving(c) ==
  /\ pc[c] = "await"
  /\ CtxDone(c)
  /\ Return(c, CancelResult("cancelled waiting to receive"))
  /\ waiters' = waiters \ {[tid |-> callTid[c], ch |-> c]}
  /\ UNCHANGED <<txId, callTid, callReq, callCtx, chanBuf, regAt, delivered>>
  /\ UNCHANGED <<waitersMu, ctxDone, muxVars, connVars, loginVars, regVars, agentVars, infoVars, codecVars, pipeVars>>

\* second select, case <-ctx.Done()
CancelAwait(c) ==
  /\ pc[c] = "await"
  /\ CtxDone(c)
  /\ Return(c, CancelResult("cancelled waiting to receive"))
  /\ UNCHANGED <<txId, callTid, callReq, callCtx, chanBuf, regAt, delivered>>
  /\ UNCHANGED <<waiters, waitersMu, ctxDone, muxVars, connVars, loginVars, regVars, agentVars, infoVars, codecVars, pipeVars>>

\* second select, case result := <-resultCh
ReceiveResult(c) ==
  /\ pc[c] = "await"
  /\ chanBuf[c] # <<>>
  /\ Return(c, [adu |-> chanBuf[c], err |-> "none"])
  /\ chanBuf' = [chanBuf EXCEPT ![c] = <<>>]
  /\ UNCHANGED <<txId, callTid, callReq, callCtx, regAt, delivered>>
  /\ UNCHANGED <<waiters, waitersMu, ctxDone, muxVars, connVars, loginVars, regVars, agentVars, infoVars, codecVars, pipeVars>>

\* The context of a call is cancelled or its deadline passes.
CtxCancel(k) ==
  /\ ~ctxDone[k]
  /\ \E c \in Calls : callCtx[c] = k /\ pc[c] \notin {"done"}
  /\ ctxDone' = [ctxDone EXCEPT ![k] = TRUE]
  /\ UNCHANGED <<waiters, waitersMu, callVars, muxVars, connVars, loginVars, regVars, agentVars, infoVars, codecVars, pipeVars>>

(***************************************************************************)
(* Run and its three loops                                                 *)
(***************************************************************************)
LoopExited(s) == rxPc[s] = "exited" \/ txPc[s] = "exited" \/ fanPc[s] = "exited"

\* ctx of errgroup.WithContext(parentCtx): done when the parent is done or
\* when a loop has returned (every return of a loop is a non-nil error).
GroupDone(s) == parentDone[s] \/ LoopExited(s)

\* Run: g.Go(receiver); g.Go(transmitter); g.Go(fanout)
Run(s) ==
  /\ runPc[s] = "idle"
  /\ IF s = 1 THEN TRUE ELSE runPc[s - 1] # "idle"
  /\ runPc' = [runPc EXCEPT ![s] = "running"]
  /\ rxPc' = [rxPc EXCEPT ![s] = "scan"]
  /\ txPc' = [txPc EXCEPT ![s] = "select"]
  /\ fanPc' = [fanPc EXCEPT ![s] = "select"]
  /\ UNCHANGED <<parentDone, rxPkt, txPkt, fanPkt, fanCh, arrival>>
  /\ UNCHANGED <<waiters, waitersMu, ctxDone, callVars, connVars, loginVars, regVars, agentVars, infoVars, codecVars, pipeVars>>

\* return g.Wait(), then the deferred c.conn.Close()
RunReturn(s) ==
  /\ runPc[s] = "running"
  /\ rxPc[s] = "exited" /\ txPc[s] = "exited" /\ fanPc[s] = "exited"
  /\ runPc' = [runPc EXCEPT ![s] = "returned"]
  /\ connClosed' = TRUE
  /\ UNCHANGED <<parentDone, rxPc, rxPkt, txPc, txPkt, fanPc, fanPkt, fanCh, arrival>>
  /\ UNCHANGED <<wire, written, peerClosed, framesSent>>
  /\ UNCHANGED <<waiters, waitersMu, ctxDone, callVars, loginVars, regVars, agentVars, infoVars, codecVars, pipeVars>>

\* The context Run was given is cancelled.
ParentCancel(s) ==
  /\ runPc[s] = "running"
  /\ ~parentDone[s]
  /\ parentDone' = [parentDone EXCEPT ![s] = TRUE]
  /\ UNCHANGED <<runPc, rxPc, rxPkt, txPc, txPkt, fanPc, fanPkt, fanCh, arrival>>
  /\ UNCHANGED <<waiters, waitersMu, ctxDone, callVars, connVars, loginVars, regVars, agentVars, infoVars, codecVars, pipeVars>>

\* receiver: err := packet.Scan(c.conn) reads one frame
ReceiverScan(s) ==
  /\ rxPc[s] = "scan"
  /\ ~connClosed
  /\ wire # <<>>
  /\ ScanOk(Head(wire))
  /\ rxPkt' = [rxPkt EXCEPT ![s] = <<Head(wire)>>]
  /\ rxPc' = [rxPc EXCEPT ![s] = "forward"]
  /\ wire' = Tail(wire)
  /\ arrival' = [arrival EXCEPT !.rx[s] = framesSent - Len(wire) + 1]
  /\ UNCHANGED <<runPc, parentDone, txPc, txPkt, fanPc, fanPkt, fanCh>>
  /\ UNCHANGED <<written, connClosed, peerClosed, framesSent>>
  /\ UNCHANGED <<waiters, waitersMu, ctxDone, callVars, loginVars, regVars, agentVars, infoVars, codecVars, pipeVars>>

\* receiver: Scan fails (closed socket, end of stream, malformed frame): return err
ReceiverScanError(s) ==
  /\ rxPc[s] = "scan"
  /\ \/ connClosed
     \/ wire = <<>> /\ peerClosed
     \/ wire # <<>> /\ ~ScanOk(Head(wire))
  /\ rxPc' = [rxPc EXCEPT ![s] = "exited"]
  /\ UNCHANGED <<runPc, parentDone, rxPkt, txPc, txPkt, fanPc, fanPkt, fanCh, arrival>>
  /\ UNCHANGED <<waiters, waitersMu, ctxDone, callVars, connVars, loginVars, regVars, agentVars, infoVars, codecVars, pipeVars>>

\* Mutant of ReceiverForward: the receiver keeps the packet and sends it
\* again.
ReceiverForwardAgain(s, t) ==
  /\ rxPc[s] = "forward"
  /\ fanPc[t] = "select"
  /\ fanPkt' = [fanPkt EXCEPT ![t] = rxPkt[s]]
  /\ fanPc' = [fanPc EXCEPT ![t] = "lock"]
  /\ arrival' = [arrival EXCEPT !.fan[t] = arrival.rx[s]]
  /\ UNCHANGED <<runPc, parentDone, rxPc, rxPkt, txPc, txPkt, fanCh>>
  /\ UNCHANGED <<waiters, waitersMu, ctxDone, callVars, connVars, loginVars, regVars, agentVars, infoVars, codecVars, pipeVars>>

\* receiver: case c.aduRxCh <- packet, taken by the fanout of Run t
\* (fanout: case packet := <-c.aduRxCh)
ReceiverForward(s, t) ==
  /\ rxPc[s] = "forward"
  /\ fanPc[t] = "select"
  /\ fanPkt' = [fanPkt EXCEPT ![t] = rxPkt[s]]
  /\ fanPc' = [fanPc EXCEPT ![t] = "lock"]
  /\ rxPkt' = [rxPkt EXCEPT ![s] = <<>>]
  /\ rxPc' = [rxPc EXCEPT ![s] = "scan"]
  /\ arrival' = [arrival EXCEPT !.fan[t] = arrival.rx[s]]
  /\ UNCHANGED <<runPc, parentDone, txPc, txPkt, fanCh>>
  /\ UNCHANGED <<waiters, waitersMu, ctxDone, callVars, connVars, loginVars, regVars, agentVars, infoVars, codecVars, pipeVars>>

\* receiver: case <-ctx.Done()
ReceiverCancel(s) ==
  /\ rxPc[s] = "forward"
  /\ GroupDone(s)
  /\ rxPc' = [rxPc EXCEPT ![s] = "exited"]
  /\ rxPkt' = [rxPkt EXCEPT ![s] = <<>>]
  /\ UNCHANGED <<runPc, parentDone, txPc, txPkt, fanPc, fanPkt, fanCh, arrival>>
  /\ UNCHANGED <<waiters, waitersMu, ctxDone, callVars, connVars, loginVars, regVars, agentVars, infoVars, codecVars, pipeVars>>

\* transmitter: case <-ctx.Done()
TransmitterCancel(s) ==
  /\ txPc[s] = "select"
  /\ GroupDone(s)
  /\ txPc' = [txPc EXCEPT ![s] = "exited"]
  /\ UNCHANGED <<runPc, parentDone, rxPc, rxPkt, txPkt, fanPc, fanPkt, fanCh, arrival>>
  /\ UNCHANGED <<waiters, waitersMu, ctxDone, callVars, connVars, loginVars, regVars, agentVars, infoVars, codecVars, pipeVars>>

\* transmitter: c.conn.Write(packet.Marshal()) succeeds
TransmitterWrite(s) ==
  /\ txPc[s] = "write"
  /\ ~connClosed
  /\ written' = written \o txPkt[s]
  /\ txPkt' = [txPkt EXCEPT ![s] = <<>>]
  /\ txPc' = [txPc EXCEPT ![s] = "select"]
  /\ UNCHANGED <<runPc, parentDone, rxPc, rxPkt, fanPc, fanPkt, fanCh, arrival>>
  /\ UNCHANGED <<wire, connClosed, peerClosed, framesSent>>
  /\ UNCHANGED <<waiters, waitersMu, ctxDone, callVars, loginVars, regVars, agentVars, infoVars, codecVars, pipeVars>>

\* transmitter: c.conn.Write fails: return err
TransmitterWriteError(s) ==
  /\ txPc[s] = "write"
  /\ connClosed \/ peerClosed
  /\ txPkt' = [txPkt EXCEPT ![s] = <<>>]
  /\ txPc' = [txPc EXCEPT ![s] = "exited"]
  /\ UNCHANGED <<runPc, parentDone, rxPc, rxPkt, fanPc, fanPkt, fanCh, arrival>>
  /\ UNCHANGED <<waiters, waitersMu, ctxDone, callVars, connVars, loginVars, regVars, agentVars, infoVars, codecVars, pipeVars>>

\* fanout: case <-ctx.Done()
FanoutCancel(s) ==
  /\ fanPc[s] = "select"
  /\ GroupDone(s)
  /\ fanPc' = [fanPc EXCEPT ![s] = "exited"]
  /\ UNCHANGED <<runPc, parentDone, rxPc, rxPkt, txPc, txPkt, fanPkt, fanCh, arrival>>
  /\ UNCHANGED <<waiters, waitersMu, ctxDone, callVars, connVars, loginVars, regVars, agentVars, infoVars, codecVars, pipeVars>>

\* Mutant of WaitersLookup: the transaction id is not used as the key.
WaitersLookupAny(tid) ==
  IF waiters = {} THEN 0 ELSE (CHOOSE w \in waiters : \A v \in waiters : w.ch <= v.ch).ch

\* ch, ok := c.waiters[packet.TransactionID]: the channel (0 when !ok)
WaitersLookup(tid) ==
  IF \E w \in waiters : w.tid = tid
    THEN (CHOOSE w \in waiters : w.tid = tid).ch
    ELSE 0

\* Mutant of WaitersDelete: the entries of the other ids are removed.
WaitersDeleteOthers(tid) == {w \in waiters : w.tid = tid}

\* Mutant of WaitersDelete: the entry is left in the table.
WaitersDeleteNothing(tid) == waiters

\* delete(c.waiters, packet.TransactionID)
WaitersDelete(tid) == {w \in waiters : w.tid # tid}

\* fanout: c.waitersMu.Lock(); ch, ok := c.waiters[packet.TransactionID]
FanoutLookup(s) ==
  /\ fanPc[s] = "lock"
  /\ waitersMu = 0
  /\ waitersMu' = s
  /\ fanCh' = [fanCh EXCEPT ![s] = WaitersLookup(fanPkt[s][1].tid)]
  /\ fanPc' = [fanPc EXCEPT ![s] = "delete"]
  /\ arrival' = [arrival EXCEPT !.lookups = Append(@, arrival.fan[s])]
  /\ UNCHANGED <<runPc, parentDone, rxPc, rxPkt, txPc, txPkt, fanPkt>>
  /\ UNCHANGED <<waiters, ctxDone, callVars, connVars, loginVars, regVars, agentVars, infoVars, codecVars, pipeVars>>

\* fanout: delete(c.waiters, packet.TransactionID); c.waitersMu.Unlock();
\* if !ok { continue }
FanoutDelete(s) ==
  /\ fanPc[s] = "delete"
  /\ waiters' = WaitersDelete(fanPkt[s][1].tid)
  /\ waitersMu' = 0
  /\ IF fanCh[s] = 0
       THEN /\ fanPc' = [fanPc EXCEPT ![s] = "select"]
            /\ fanPkt' = [fanPkt EXCEPT ![s] = <<>>]
       ELSE /\ fanPc' = [fanPc EXCEPT ![s] = "deliver"]
            /\ fanPkt' = fanPkt
  /\ UNCHANGED <<runPc, parentDone, rxPc, rxPkt, txPc, txPkt, fanCh, arrival>>
  /\ UNCHANGED <<ctxDone, callVars, connVars, loginVars, regVars, agentVars, infoVars, codecVars, pipeVars>>

\* Mutant of FanoutDeliver: the channel has no buffer, the send waits for
\* the caller to receive.
FanoutDeliverUnbuffered(s) ==
  /\ fanPc[s] = "deliver"
  /\ pc[fanCh[s]] = "await"
  /\ chanBuf[fanCh[s]] = <<>>
  /\ chanBuf' = [chanBuf EXCEPT ![fanCh[s]] = fanPkt[s]]
  /\ delivered' = [delivered EXCEPT ![fanCh[s]] = @ + 1]
  /\ fanPc' = [fanPc EXCEPT ![s] = "select"]
  /\ fanPkt' = [fanPkt EXCEPT ![s] = <<>>]
  /\ fanCh' = [fanCh EXCEPT ![s] = 0]
  /\ UNCHANGED <<txId, pc, callTid, callReq, callCtx, result, regAt>>
  /\ UNCHANGED <<runPc, parentDone, rxPc, rxPkt, txPc, txPkt, arrival>>
  /\ UNCHANGED <<waiters, waitersMu, ctxDone, connVars, loginVars, regVars, agentVars, infoVars, codecVars, pipeVars>>

\* fanout: ch <- packet (blocks while the channel's one slot is taken)
FanoutDeliver(s) ==
  /\ fanPc[s] = "deliver"
  /\ chanBuf[fanCh[s]] = <<>>
  /\ chanBuf' = [chanBuf EXCEPT ![fanCh[s]] = fanPkt[s]]
  /\ delivered' = [delivered EXCEPT ![fanCh[s]] = @ + 1]
  /\ fanPc' = [fanPc EXCEPT ![s] = "select"]
  /\ fanPkt' = [fanPkt EXCEPT ![s] = <<>>]
  /\ fanCh' = [fanCh EXCEPT ![s] = 0]
  /\ UNCHANGED <<txId, pc, callTid, callReq, callCtx, result, regAt>>
  /\ UNCHANGED <<runPc, parentDone, rxPc, rxPkt, txPc, txPkt, arrival>>
  /\ UNCHANGED <<waiters, waitersMu, ctxDone, connVars, loginVars, regVars, agentVars, infoVars, codecVars, pipeVars>>

(***************************************************************************)
(* The device and the network                                              *)
(***************************************************************************)
\* The device sends a frame.
DeviceSend(f) ==
  /\ ~peerClosed
  /\ ~connClosed
  /\ Len(wire) < MaxWire
  /\ framesSent < MaxFrames
  /\ wire' = Append(wire, f)
  /\ framesSent' = framesSent + 1
  /\ UNCHANGED <<written, connClosed, peerClosed>>
  /\ UNCHANGED <<waiters, waitersMu, ctxDone, callVars, muxVars, loginVars, regVars, agentVars, infoVars, codecVars, pipeVars>>

\* The device closes or resets the connection.
PeerClose ==
  /\ ~peerClosed
  /\ ~connClosed
  /\ peerClosed' = TRUE
  /\ UNCHANGED <<wire, written, connClosed, framesSent>>
  /\ UNCHANGED <<waiters, waitersMu, ctxDone, callVars, muxVars, loginVars, regVars, agentVars, infoVars, codecVars, pipeVars>>

\* Well-formed response frames, with any transaction id.
MuxFrames == {ResponseADU(t, FcReadHolding, d) : t \in TxIds, d \in MuxPayloads}

(***************************************************************************)
(* Specifications                                                          *)
(***************************************************************************)
\* A caller starts FunctionCall c with a context of its own.
StartCall(c) ==
  /\ FunctionCallMint(c, c, FcReadHolding, MuxRequestData)
  /\ UNCHANGED <<waiters, waitersMu, ctxDone, muxVars, connVars, loginVars, regVars, agentVars, infoVars, codecVars, pipeVars>>

\* The steps of FunctionCall c.
CallStep(c) ==
  \/ Waiter(c)
  \/ \E s \in Runs : SendRequest(c, s)
  \/ CancelSend(c)
  \/ CancelAwait(c)
  \/ ReceiveResult(c)

\* The steps of the loops of Run s while they run.
LoopStep(s) ==
  \/ ReceiverScan(s)
  \/ \E t \in Runs : ReceiverForward(s, t)
  \/ TransmitterWrite(s)
  \/ FanoutLookup(s)
  \/ FanoutDelete(s)
  \/ FanoutDeliver(s)

\* The steps by which the loops of Run s exit and Run returns.
ExitStep(s) ==
  \/ ReceiverScanError(s)
  \/ ReceiverCancel(s)
  \/ TransmitterCancel(s)
  \/ TransmitterWriteError(s)
  \/ FanoutCancel(s)
  \/ RunReturn(s)

\* Correlation: the agent's multiplexer (main.go: go q.Run(ctx), once) while
\* its loops run, any number of concurrent calls, each of which may be
\* cancelled at any time, and a device that sends any well-formed frame.
Next ==
  \/ Run(1)
  \/ \E c \in Calls : StartCall(c) \/ CallStep(c)
  \/ \E s \in Runs : LoopStep(s)
  \/ \E f \in MuxFrames : DeviceSend(f)
  \/ \E k \in Calls : CtxCancel(k)

Spec == Init /\ [][Next]_vars

(***************************************************************************)
(* Login (internal/solar/login.go)                                         *)
(***************************************************************************)
\* byte(x)
Byte(x) == x % 256

\* The credentials Login is given (cfg.Modbus.Username, cfg.Modbus.Password).
Username == <<117, 115, 114>>
Password == <<112, 119>>

\* loginHash: HMAC-SHA256 with key SHA256(password) of the challenge, 32
\* bytes; the digest is abstracted to a 32-byte function of both arguments.
LoginHash(password, challenge) ==
  [i \in 1..32 |->
     Byte(31 * challenge[((i - 1) % Len(challenge)) + 1]
          + password[((i - 1) % Len(password)) + 1] + i)]

\* data[lo:hi]
Slice(data, lo, hi) == [i \in 1..(hi - lo) |-> data[lo + i]]

\* Mutant of FirstChallenge: the slice starts at the first byte.
FirstChallengeFromStart(data) == Slice(data, 0, 16)

\* firstChallenge := resp.Data[2:18]
FirstChallenge(data) == Slice(data, 2, 18)

\* loginInit: the data of the login-init request
LoginInitData == <<36, 1, 0>>

\* loginInitialChallengeResponse: partTwoReqData
PartTwoReqData(username, challResp) ==
  <<37, Byte(16 + 1 + Len(username) + 1 + Len(challResp)),
    41, 42, 43, 44, 45, 46, 47, 48, 41, 42, 43, 44, 45, 46, 47, 48>>
  \o <<Byte(Len(username))>> \o username
  \o <<Byte(Len(challResp))>> \o challResp

\* The result code of the final response: "..., <code>, 55".
ResultCode(data) == data[Len(data) - 1]

\* The result codes the comments of Login name as failures.
LoginFailureCodes == {6, 38, 2}

\* Payloads the device answers login requests with: 17 and 18 bytes (a
\* challenge at [2,18) or not), and final responses with result codes 0, 6.
LoginPayloads ==
  { [i \in 1..17 |-> 2 * i],
    [i \in 1..18 |-> 3 * i + 1],
    <<37, 36, 1, 32, 0, 55>>,
    <<37, 36, 1, 32, 6, 55>> }

LoginFrames == {ResponseADU(t, FcLogin, d) : t \in TxIds, d \in LoginPayloads}

\* Login: ctx with the 15 s timeout, then loginInit calls FunctionCall.
LoginStart ==
  /\ loginPc = "idle"
  /\ FunctionCallMint(1, 1, FcLogin, LoginInitData)
  /\ loginPc' = "init"
  /\ UNCHANGED <<loginChallenge, loginErr>>
  /\ UNCHANGED <<waiters, waitersMu, ctxDone, muxVars, connVars, regVars, agentVars, infoVars, codecVars, pipeVars>>

\* Mutant of LoginInitReturned: a failed login-init call does not end Login.
LoginInitReturnedIgnoringErr ==
  /\ loginPc = "init"
  /\ pc[1] = "done"
  /\ loginPc' = "sleep"
  /\ loginChallenge' = [i \in 1..16 |-> 0]
  /\ UNCHANGED loginErr
  /\ UNCHANGED <<waiters, waitersMu, ctxDone, callVars, muxVars, connVars, regVars, agentVars, infoVars, codecVars, pipeVars>>

\* Login: loginInit has returned; the length check and the challenge.
LoginInitReturned ==
  /\ loginPc = "init"
  /\ pc[1] = "done"
  /\ IF result[1].err # "none"
       THEN /\ loginPc' = "returned"
            /\ loginErr' = "err doing PDU for login init"
            /\ UNCHANGED loginChallenge
       ELSE IF Len(result[1].adu[1].data) < 18
         THEN /\ loginPc' = "returned"
              /\ loginErr' = "invalid response data length"
              /\ UNCHANGED loginChallenge
         ELSE /\ loginPc' = "sleep"
              /\ loginChallenge' = FirstChallenge(result[1].adu[1].data)
              /\ UNCHANGED loginErr
  /\ UNCHANGED <<waiters, waitersMu, ctxDone, callVars, muxVars, connVars, regVars, agentVars, infoVars, codecVars, pipeVars>>

\* Login: after time.Sleep, loginInitialChallengeResponse calls FunctionCall.
LoginRespond ==
  /\ loginPc = "sleep"
  /\ FunctionCallMint(2, 1, FcLogin,
                      PartTwoReqData(Username, LoginHash(Password, loginChallenge)))
  /\ loginPc' = "response"
  /\ UNCHANGED <<loginChallenge, loginErr>>
  /\ UNCHANGED <<waiters, waitersMu, ctxDone, muxVars, connVars, regVars, agentVars, infoVars, codecVars, pipeVars>>

\* Login: loginInitialChallengeResponse has returned; return err or nil.
LoginFinish ==
  /\ loginPc = "response"
  /\ pc[2] = "done"
  /\ loginPc' = "returned"
  /\ loginErr' = IF result[2].err # "none" THEN "error on part 2 of login" ELSE "nil"
  /\ UNCHANGED loginChallenge
  /\ UNCHANGED <<waiters, waitersMu, ctxDone, callVars, muxVars, connVars, regVars, agentVars, infoVars, codecVars, pipeVars>>

\* The 15 s of Login's context pass, or the caller's context is cancelled.
LoginTimeout ==
  /\ loginPc \in {"init", "sleep", "response"}
  /\ ~ctxDone[1]
  /\ ctxDone' = [ctxDone EXCEPT ![1] = TRUE]
  /\ UNCHANGED <<waiters, waitersMu, callVars, muxVars, connVars, loginVars, regVars, agentVars, infoVars, codecVars, pipeVars>>

\* Login on a running multiplexer: the calls are those of Login.
LoginNext ==
  \/ Run(1)
  \/ LoginStart
  \/ LoginInitReturned
  \/ LoginRespond
  \/ LoginFinish
  \/ LoginTimeout
  \/ \E c \in Calls : CallStep(c)
  \/ \E s \in Runs : LoopStep(s)
  \/ \E f \in LoginFrames : DeviceSend(f)

LoginSpec == Init /\ [][LoginNext]_vars

\* The goroutines of Run s.
ReceiverStep(s) ==
  \/ ReceiverScan(s)
  \/ ReceiverScanError(s)
  \/ \E t \in Runs : ReceiverForward(s, t)
  \/ ReceiverCancel(s)

TransmitterStep(s) ==
  \/ TransmitterWrite(s)
  \/ TransmitterWriteError(s)
  \/ TransmitterCancel(s)

FanoutStep(s) ==
  \/ FanoutLookup(s)
  \/ FanoutDelete(s)
  \/ FanoutDeliver(s)
  \/ FanoutCancel(s)

\* Life cycle: the loops run and exit (read, decode and write errors,
\* cancellation of Run's context) while calls are made and cancelled.
LifeNext ==
  \/ Run(1)
  \/ \E c \in 1..LifeCalls : StartCall(c) \/ CallStep(c)
  \/ \E s \in Runs : LoopStep(s) \/ ExitStep(s)
  \/ \E f \in MuxFrames \cup {BadFrame} : DeviceSend(f)
  \/ PeerClose
  \/ \E k \in 1..LifeCalls : CtxCancel(k)
  \/ \E s \in Runs : ParentCancel(s)

\* Every goroutine that can take a step eventually takes one (the Go
\* scheduler). Nothing is assumed of the device, the callers' contexts or
\* the context of Run.
LifeFairness ==
  /\ \A c \in 1..LifeCalls : WF_vars(CallStep(c))
  /\ \A s \in Runs :
       /\ WF_vars(ReceiverStep(s))
       /\ WF_vars(TransmitterStep(s))
       /\ WF_vars(FanoutStep(s))
       /\ WF_vars(RunReturn(s))

LifeSpec == Init /\ [][LifeNext]_vars /\ LifeFairness

\* Sessions: Run may be called again on the same ModbusConn at any time
\* (nothing in NewModbusConn or Run prevents it).
RunsNext ==
  \/ \E s \in Runs : Run(s)
  \/ \E c \in 1..LifeCalls : StartCall(c) \/ CallStep(c)
  \/ \E s \in Runs : LoopStep(s) \/ ExitStep(s)
  \/ \E f \in MuxFrames : DeviceSend(f)
  \/ PeerClose
  \/ \E k \in 1..LifeCalls : CtxCancel(k)
  \/ \E s \in Runs : ParentCancel(s)

RunsSpec == Init /\ [][RunsNext]_vars

(***************************************************************************)
(* Register reads (internal/modbus/client_registers.go) and Query          *)
(***************************************************************************)
\* anyNumByName: the register type a modbus_type tag or a Go type name names.
AnyNumByName(name) ==
  CASE name \in {"int8", "i8"} -> "int8"
    [] name \in {"uint8", "u8"} -> "uint8"
    [] name \in {"int16", "i16"} -> "int16"
    [] name \in {"uint16", "u16"} -> "uint16"
    [] name \in {"int32", "i32"} -> "int32"
    [] name \in {"uint32", "u32"} -> "uint32"
    [] name \in {"int64", "i64"} -> "int64"
    [] name \in {"uint64", "u64"} -> "uint64"

\* sizeOf[T]
SizeOf(t) ==
  CASE t \in {"int8", "uint8"} -> 1
    [] t \in {"int16", "uint16"} -> 2
    [] t \in {"int32", "uint32"} -> 4
    [] t \in {"int64", "uint64"} -> 8

\* uint16(x) of a float64 x >= 0. When x is not below 2^16 the result is
\* implementation-dependent: the low 16 bits of the integer on amd64, the
\* saturated value on arm64.
Uint16OfFloat(x) == IF x < 65536 THEN {x} ELSE {x % 65536, 65535}

\* The registers quantityT elements of type t occupy:
\* math.Ceil(float64(quantityT) * float64(tSize) / 2)
RegistersNeeded(quantityT, t) == (quantityT * SizeOf(t) + 1) \div 2

\* binary.Write(&buff, binary.BigEndian, x) of a uint16
U16Bytes(x) == <<x \div 256, x % 256>>

\* A read returns err without calling FunctionCall.
ReadRejected(err) ==
  /\ readPc' = "returned"
  /\ readRes' = [values |-> <<>>, results |-> <<>>, err |-> err]
  /\ UNCHANGED callVars

\* ReadHoldingRegistersU16 up to its call of FunctionCall, with context k.
ReadHoldingRegistersU16(k, address, quantity) ==
  IF quantity < 1 \/ quantity > 125
    THEN ReadRejected("quantity must be between 1 and 125")
    ELSE /\ Minted < NumCalls
         /\ FunctionCallMint(Minted + 1, k, FcReadHolding,
                             U16Bytes(address) \o U16Bytes(quantity))
         /\ readPc' = "call"
         /\ UNCHANGED readRes

\* ReadHoldingRegisters[T] up to the call of FunctionCall; t = "raw" is a
\* direct call of ReadHoldingRegistersU16 for quantityT registers.
ReadHoldingRegisters(k, address, quantityT, t) ==
  /\ readPc = "idle"
  /\ \E q \in (IF t = "raw" THEN {quantityT}
               ELSE Uint16OfFloat(RegistersNeeded(quantityT, t))) :
       /\ readArgs' = [address |-> address, quantityT |-> quantityT,
                       t |-> t, quantity |-> q]
       /\ IF t # "raw" /\ q > 125
            THEN ReadRejected("more than 125 registers")
            ELSE ReadHoldingRegistersU16(k, address, q)

\* Mutant of ResponseValues: the number of bytes after the byte count is
\* not compared with the byte count.
ResponseValuesUnchecked(res, quantity) ==
  IF res.err # "none"
    THEN [values |-> <<>>, err |-> "failed to make call"]
  ELSE IF Len(res.adu[1].data) = 0
    THEN [values |-> <<>>, err |-> "response data is empty"]
  ELSE IF res.adu[1].data[1] # (quantity * 2) % 65536
    THEN [values |-> <<>>, err |-> "data size does not match"]
  ELSE [values |-> Tail(res.adu[1].data), err |-> "nil"]

\* ReadHoldingRegistersU16 after FunctionCall returned res: the checks of
\* the response and the values.
ResponseValues(res, quantity) ==
  IF res.err # "none"
    THEN [values |-> <<>>, err |-> "failed to make call"]
  ELSE IF Len(res.adu[1].data) = 0
    THEN [values |-> <<>>, err |-> "response data is empty"]
  ELSE IF res.adu[1].data[1] # (quantity * 2) % 65536
    THEN [values |-> <<>>, err |-> "data size does not match"]
  ELSE IF res.adu[1].data[1] # Len(res.adu[1].data) - 1
    THEN [values |-> <<>>, err |-> "payload size does not match"]
  ELSE [values |-> Tail(res.adu[1].data), err |-> "nil"]

\* binary.BigEndian of the bytes b, as an unsigned integer
RECURSIVE BigEndian(_)
BigEndian(b) ==
  IF b = <<>> THEN 0
  ELSE BigEndian(SubSeq(b, 1, Len(b) - 1)) * 256 + b[Len(b)]

\* Mutant of Decode: every type is decoded as unsigned.
DecodeUnsigned(b, t) == BigEndian(b)

\* binary.Decode(b, binary.BigEndian, &results[i]) for an integer type t
Decode(b, t) ==
  IF t \in {"int8", "int16", "int32", "int64"} /\ b[1] >= 128
    THEN -(BigEndian([i \in 1..Len(b) |-> 255 - b[i]]) + 1)
    ELSE BigEndian(b)

\* The read returns: ReadHoldingRegistersU16's checks, then for a typed read
\* the loop that decodes quantityT elements from valuesAsBytes[this:next],
\* which panics when the slice is out of range.
ReadReturned ==
  /\ readPc = "call"
  /\ pc[Minted] = "done"
  /\ LET v == ResponseValues(result[Minted], readArgs.quantity)
         tSize == SizeOf(readArgs.t)
     IN IF v.err # "nil" \/ readArgs.t = "raw"
          THEN /\ readPc' = "returned"
               /\ readRes' = [values |-> v.values, results |-> <<>>, err |-> v.err]
        ELSE IF readArgs.quantityT * tSize > Len(v.values)
          THEN /\ readPc' = "panicked"
               /\ readRes' = [values |-> v.values, results |-> <<>>,
                              err |-> "slice bounds out of range"]
          ELSE /\ readPc' = "returned"
               /\ readRes' =
                    [values |-> v.values,
                     results |-> [i \in 1..readArgs.quantityT |->
                                    Decode(SubSeq(v.values, (i - 1) * tSize + 1, i * tSize),
                                           readArgs.t)],
                     err |-> "nil"]
  /\ UNCHANGED <<readArgs, qPc, qSchema, qField, qRecord, qOut>>
  /\ UNCHANGED <<waiters, waitersMu, ctxDone, callVars, muxVars, connVars,
                 loginVars, agentVars, infoVars, codecVars, pipeVars>>

\* Mutant of TrimRight: only one NUL is removed.
TrimRightOnce(s) ==
  IF s # <<>> /\ s[Len(s)] = 0 THEN SubSeq(s, 1, Len(s) - 1) ELSE s

\* strings.TrimRight(s, "\x00")
RECURSIVE TrimRight(_)
TrimRight(s) ==
  IF s = <<>> THEN s
  ELSE IF s[Len(s)] = 0 THEN TrimRight(SubSeq(s, 1, Len(s) - 1))
  ELSE s

\* Mutant of StringOf: all the bytes read are the string.
StringOfAllRead(res, size) == TrimRight(res)

\* ReadHoldingRegisterString: what it returns from the size+1 bytes read
StringOf(res, size) == TrimRight(SubSeq(res, 1, size))

\* Fields of the structs handed to QueryStructRegisters. kind is the kind
\* of the Go field, type its modbus_type tag (or the name of its Go type),
\* scalar its modbus_scalar tag (1 without one), addr its modbus_addr tag
\* (0 without one), strLen its modbus_str_len tag.
Field(name, kind, type, scalar, addr, strLen) ==
  [name |-> name, kind |-> kind, type |-> type, scalar |-> scalar,
   addr |-> addr, strLen |-> strLen]

\* solar.Data: Timestamp, SerialNumber, InternalTemperature, DeviceStatus,
\* DeviceStatusText (the other fields are declared like one of these).
DataSchema ==
  << Field("Timestamp", "struct", "Time", 1, 0, 0),
     Field("SerialNumber", "string", "string", 1, 30015, 20),
     Field("InternalTemperature", "float", "i16", 10, 32087, 0),
     Field("DeviceStatus", "uint", "uint16", 1, 32089, 0),
     Field("DeviceStatusText", "string", "string", 1, 0, 0) >>

\* The lookup table of the status codes
deviceStatusDefinitions ==
  (0 :> "Standby, initializing")
  @@ (1 :> "Standby, detecting insulation resistance")
  @@ (2 :> "Standby, detecting irradiation")
  @@ (3 :> "Standby, grid detecting")
  @@ (256 :> "Starting")
  @@ (512 :> "On-grid")
  @@ (513 :> "Grid Connection, power limited")
  @@ (514 :> "Grid Connection, self-derating")
  @@ (768 :> "Shutdown, fault")
  @@ (769 :> "Shutdown, command")
  @@ (770 :> "Shutdown, OVGR")
  @@ (771 :> "Shutdown, communication disconnected")
  @@ (772 :> "Shutdown, power limited")
  @@ (773 :> "Shutdown, manual startup required")
  @@ (774 :> "Shutdown, DC switches disconnected")
  @@ (775 :> "Shutdown, rapid cutoff")
  @@ (776 :> "Shutdown, input underpowered")
  @@ (1025 :> "Grid scheduling, cosphi-P curve")
  @@ (1026 :> "Grid scheduling, Q-U curve")
  @@ (1027 :> "Grid scheduling, PF-U curve")
  @@ (1028 :> "Grid scheduling, dry contact")
  @@ (1029 :> "Grid scheduling, Q-P curve")
  @@ (1280 :> "Spot-check ready")
  @@ (1281 :> "Spot-checking")
  @@ (1536 :> "Inspecting")
  @@ (1792 :> "AFCI self check")
  @@ (2048 :> "I-V scanning")
  @@ (2304 :> "DC input detection")
  @@ (2560 :> "Running, off-grid charging")
  @@ (40960 :> "Standby, no irradiation")

\* Mutant of StatusText: a code that is not in the table gets the text of
\* code 0.
StatusTextOfZero(code) ==
  IF code \in DOMAIN deviceStatusDefinitions
    THEN deviceStatusDefinitions[code]
    ELSE deviceStatusDefinitions[0]

\* StatusText
StatusText(code) ==
  IF code \in DOMAIN deviceStatusDefinitions
    THEN deviceStatusDefinitions[code]
    ELSE "Unknown"

\* Structs of other callers of QueryStructRegisters: a short string, and
\* integer fields that declare a scale.
StringSchema == << Field("Name", "string", "string", 1, 30000, 4) >>
ScaledIntSchema ==
  << Field("Tenths", "int", "i16", 10, 32087, 0),
     Field("Hundredths", "uint", "u16", 100, 32085, 0) >>

\* A struct with fields of 8, 32 and 64 bits.
WideSchema ==
  << Field("Flags", "int", "i8", 1, 32000, 0),
     Field("InputPowerW", "float", "i32", 1, 32064, 0),
     Field("Energy", "uint", "u64", 1, 32100, 0) >>

Schemas == {DataSchema, StringSchema, ScaledIntSchema, WideSchema}

\* int64(scalar) and uint64(scalar) after scalar = 1.0 / scalar, for a
\* declared scale s >= 1: the float is truncated to an integer.
IntOfReciprocal(s) == 1 \div s

\* The value QueryStructRegisters sets a numeric field to, as the fraction
\* num/den: castAnyNumTo[..](result) times the scalar, in the arithmetic of
\* the field's kind. For a float field v * (1.0/s) is kept as v/s (the
\* rounding of the float product is not modelled).
Scaled(f, v) ==
  IF f.kind = "float"
    THEN [num |-> v, den |-> f.scalar]
    ELSE [num |-> v * IntOfReciprocal(f.scalar), den |-> 1]

\* Query: d := &Data{...}, the 15 s timeout (context 1), and
\* QueryStructRegisters(ctx, d) on a struct with the fields of schema.
QueryStart(schema) ==
  /\ qPc = "idle" /\ readPc = "idle"
  /\ qPc' = "loop"
  /\ qSchema' = schema
  /\ qField' = 1
  /\ qRecord' = [i \in 1..Len(schema) |-> <<>>]
  /\ UNCHANGED <<readPc, readArgs, readRes, qOut>>
  /\ UNCHANGED <<waiters, waitersMu, ctxDone, callVars, muxVars, connVars,
                 loginVars, agentVars, infoVars, codecVars, pipeVars>>

\* QueryStructRegisters: one turn of the field loop up to the read of the
\* field, or the return after the last field; Query then sets
\* d.DeviceStatusText = StatusText(d.DeviceStatus) and returns d (a struct
\* of another caller is returned as QueryStructRegisters left it).
QueryField ==
  /\ qPc = "loop"
  /\ IF qField > Len(qSchema)
       THEN /\ qPc' = "returned"
            /\ qRecord' = IF qSchema = DataSchema
                             THEN [qRecord EXCEPT ![5] = <<StatusText(qRecord[4][1].num)>>]
                             ELSE qRecord
            /\ qOut' = [rec |-> <<qRecord'>>, err |-> "nil"]
            /\ UNCHANGED <<readPc, readArgs, readRes, qField, callVars>>
     ELSE IF qSchema[qField].addr = 0
       THEN /\ qField' = qField + 1
            /\ UNCHANGED <<readPc, readArgs, readRes, qPc, qRecord, qOut, callVars>>
     ELSE IF qSchema[qField].kind = "string" /\ qSchema[qField].strLen = 0
       THEN /\ qPc' = "returned"
            /\ qOut' = [rec |-> <<>>, err |-> "no valid modbus_str_len tag"]
            /\ UNCHANGED <<readPc, readArgs, readRes, qField, qRecord, callVars>>
     ELSE /\ IF qSchema[qField].kind = "string"
               THEN ReadHoldingRegisters(1, qSchema[qField].addr,
                                         (qSchema[qField].strLen + 1) % 65536, "uint8")
               ELSE ReadHoldingRegisters(1, qSchema[qField].addr, 1,
                                         AnyNumByName(qSchema[qField].type))
          /\ qPc' = "reading"
          /\ UNCHANGED <<qField, qRecord, qOut>>
  /\ UNCHANGED qSchema
  /\ UNCHANGED <<waiters, waitersMu, ctxDone, muxVars, connVars, loginVars, agentVars, infoVars, codecVars, pipeVars>>

\* Mutant of QueryFieldDone: a failed read leaves the field unset and the
\* loop goes on with the next field.
QueryFieldDoneSkipping ==
  /\ qPc = "reading" /\ readPc = "returned"
  /\ readPc' = "idle"
  /\ qPc' = "loop"
  /\ qField' = qField + 1
  /\ qRecord' = IF readRes.err # "nil" THEN qRecord
                ELSE [qRecord EXCEPT ![qField] = <<readRes.results>>]
  /\ UNCHANGED <<readArgs, readRes, qSchema, qOut>>
  /\ UNCHANGED <<waiters, waitersMu, ctxDone, callVars, muxVars, connVars,
                 loginVars, agentVars, infoVars, codecVars, pipeVars>>

\* QueryStructRegisters: the read of the field returned; on an error
\* QueryStructRegisters returns it and Query returns nil and the error,
\* otherwise the field is set and the loop goes on.
QueryFieldDone ==
  /\ qPc = "reading" /\ readPc = "returned"
  /\ readPc' = "idle"
  /\ IF readRes.err # "nil"
       THEN /\ qPc' = "returned"
            /\ qOut' = [rec |-> <<>>, err |-> "failed to read"]
            /\ UNCHANGED <<qField, qRecord>>
       ELSE /\ qPc' = "loop"
            /\ qField' = qField + 1
            /\ qRecord' =
                 [qRecord EXCEPT ![qField] =
                    IF qSchema[qField].kind = "string"
                      THEN <<StringOf(readRes.results, qSchema[qField].strLen)>>
                      ELSE <<Scaled(qSchema[qField], readRes.results[1])>>]
            /\ UNCHANGED qOut
  /\ UNCHANGED <<readArgs, readRes, qSchema>>
  /\ UNCHANGED <<waiters, waitersMu, ctxDone, callVars, muxVars, connVars,
                 loginVars, agentVars, infoVars, codecVars, pipeVars>>

\* Element counts and types of reads made directly by a caller of
\* ReadHoldingRegisters or ReadHoldingRegistersU16.
DirectReads ==
  ({0, 1, 125, 126, 200} \X {"raw"})
  \cup ({0, 1, 2, 250, 251, 65535} \X {"uint8"})
  \cup ({125, 126, 65535} \X {"uint16"})
  \cup ({1, 62, 63, 32778, 65535} \X {"uint32"})
  \cup ({1, 31, 32, 16400} \X {"int64"})

\* A caller reads directly, outside any Query.
DirectRead(quantityT, t) ==
  /\ qPc = "idle"
  /\ ReadHoldingRegisters(1, 32087, quantityT, t)
  /\ UNCHANGED <<qPc, qSchema, qField, qRecord, qOut>>
  /\ UNCHANGED <<waiters, waitersMu, ctxDone, muxVars, connVars, loginVars, agentVars, infoVars, codecVars, pipeVars>>

\* Payloads of the responses to register reads: for 1 register (values 100,
\* -100 as int16, 0xFFFF, status 0x0200), without data, with a byte count
\* and no or too many bytes, for 2 registers, for 4 registers, for the 3
\* registers of a 4-byte string (NULs at the end, in the middle, everywhere,
\* nowhere), and for the 11 registers of SerialNumber.
RegPayloads ==
  { <<>>, <<2, 0, 100>>, <<2, 255, 156>>, <<2, 255, 255>>, <<2, 2, 0>>, <<2>>,
    <<2, 0, 100, 7>>,
    <<4, 0, 0, 1, 0>>, <<8, 0, 0, 0, 0, 0, 0, 1, 44>>,
    <<6, 65, 0, 66, 0, 0, 0>>, <<6, 65, 66, 0, 0, 7, 7>>,
    <<6, 0, 0, 0, 0, 0, 0>>, <<6, 65, 66, 67, 68, 0, 0>>,
    <<22>> \o [i \in 1..22 |-> IF i <= 12 THEN 47 + i ELSE 0] }

\* The device answers the oldest request it has not answered yet.
DeviceReply(d) ==
  /\ framesSent < Len(written)
  /\ Len(wire) < MaxWire
  /\ ~peerClosed
  /\ wire' = Append(wire, ResponseADU(written[framesSent + 1].tid,
                                      written[framesSent + 1].fc, d))
  /\ framesSent' = framesSent + 1
  /\ UNCHANGED <<written, connClosed, peerClosed>>
  /\ UNCHANGED <<waiters, waitersMu, ctxDone, callVars, muxVars, loginVars,
                 regVars, agentVars, infoVars, codecVars, pipeVars>>

\* Register reads on a running multiplexer: a Query, a QueryStructRegisters
\* on another struct or a direct read, its context expiring at any time.
RegNext ==
  \/ Run(1)
  \/ \E schema \in Schemas : QueryStart(schema)
  \/ QueryField
  \/ QueryFieldDone
  \/ \E r \in DirectReads : DirectRead(r[1], r[2])
  \/ ReadReturned
  \/ \E c \in Calls : CallStep(c)
  \/ \E s \in Runs : LoopStep(s)
  \/ \E d \in RegPayloads : DeviceReply(d)
  \/ CtxCancel(1)

RegSpec == Init /\ [][RegNext]_vars

(***************************************************************************)
(* runAgent: connecting, logging in, polling and recovering (README.md)    *)
(***************************************************************************)
\* What happens to BroadcastHello: self is no IPv4 address, net.DialUDP
\* fails, conn.Write fails, conn.Read fails (no reply within 5 s), or a
\* reply is read.
HelloOutcomes ==
  {"self not IPv4", "DialUDP fails", "Write fails", "Read fails", "reply"}

\* Mutant of BroadcastHello: without a reply it returns an error.
BroadcastHelloNeedsReply(env) ==
  [sent |-> IF env \in {"Read fails", "reply"}
              THEN <<90, 90, 90, 90, 0, 65, 58, 4, 192, 168, 1, 10>> ELSE <<>>,
   err |-> IF env = "reply" THEN "nil" ELSE env]

\* BroadcastHello: the datagram that was sent ("ZZZZ", 0, 65, 58, 4 and the
\* 4 bytes of self; <<>> when none was) and the error returned.
BroadcastHello(env) ==
  [sent |-> IF env \in {"Read fails", "reply"}
              THEN <<90, 90, 90, 90, 0, 65, 58, 4, 192, 168, 1, 10>> ELSE <<>>,
   err |-> IF env \in {"Read fails", "reply"} THEN "nil" ELSE env]

\* A connection as connectToInverter leaves it: closed is Client.Close,
\* hello whether BroadcastHello sent its datagram, helloErr what it
\* returned, run is go inverter.Run(ctx); the other fields are history: what
\* happened to BroadcastHello, the order of the dial, the datagram and the
\* start of Run, whether a Login and a Query were run on the connection (0
\* or 1), the outcome of the last Login, and whether a Query was issued on
\* it before any Login.
NewConn(env) ==
  [closed |-> FALSE,
   hello |-> IF BroadcastHello(env).sent # <<>> THEN "sent" ELSE "failed",
   helloErr |-> BroadcastHello(env).err,
   helloEnv |-> env,
   trace |-> <<"dial">>
             \o (IF BroadcastHello(env).sent # <<>> THEN <<"hello">> ELSE <<>>)
             \o <<"run">>,
   run |-> TRUE, logins |-> 0, lastLogin |-> "none", queries |-> 0,
   early |-> FALSE]

\* connectToInverter: the old client is closed and forgotten, then dial,
\* BroadcastHello (an error is only logged) and go inverter.Run(ctx). The
\* result is the value of conns and inverter after it.
ConnectToInverter(dialOk, env) ==
  LET closedConns == [g \in 1..Len(conns) |->
                        IF g = inverter THEN [conns[g] EXCEPT !.closed = TRUE]
                        ELSE conns[g]]
  IN IF dialOk
       THEN [conns |-> Append(closedConns, NewConn(env)),
             inverter |-> Len(conns) + 1]
       ELSE [conns |-> closedConns, inverter |-> 0]

\* The dial outcomes: a dial succeeds at most MaxConns times.
DialOutcomes == IF Len(conns) < MaxConns THEN BOOLEAN ELSE {FALSE}

\* runAgent: err = connectToInverter(); os.Exit(1) on an error
InitialConnect(dialOk, env) ==
  /\ agentPc = "start"
  /\ dialOk \in DialOutcomes
  /\ conns' = ConnectToInverter(dialOk, env).conns
  /\ inverter' = ConnectToInverter(dialOk, env).inverter
  /\ dialed' = ~dialed
  /\ agentPc' = IF dialOk THEN "login" ELSE "exited"
  /\ UNCHANGED <<backoff, attempts, polls>>
  /\ UNCHANGED <<waiters, waitersMu, ctxDone, callVars, muxVars, connVars,
                 loginVars, regVars, infoVars, codecVars, pipeVars>>

\* inverter.Login(...) returned: the history of the connection
LoggedIn(ok) ==
  [conns EXCEPT ![inverter].logins = 1,
                ![inverter].lastLogin = IF ok THEN "ok" ELSE "err"]

\* runAgent: the first Login; on an error "proceeding anyway"
InitialLogin(ok) ==
  /\ agentPc = "login"
  /\ conns' = LoggedIn(ok)
  /\ agentPc' = "tick"
  /\ UNCHANGED <<inverter, backoff, attempts, polls, dialed>>
  /\ UNCHANGED <<waiters, waitersMu, ctxDone, callVars, muxVars, connVars,
                 loginVars, regVars, infoVars, codecVars, pipeVars>>

\* query goroutine: case <-ticker.C: d, err := inverter.Query(ctx); on an
\* error handleQueryError is entered, otherwise d goes to dataCh.
Poll(ok) ==
  /\ agentPc = "tick"
  /\ polls < MaxPolls
  /\ polls' = polls + 1
  /\ conns' = [conns EXCEPT ![inverter].queries = 1,
                            ![inverter].early = @ \/ conns[inverter].logins = 0]
  /\ agentPc' = IF ok THEN "tick" ELSE "relogin"
  /\ UNCHANGED <<inverter, backoff, attempts, dialed>>
  /\ UNCHANGED <<waiters, waitersMu, ctxDone, callVars, muxVars, connVars,
                 loginVars, regVars, infoVars, codecVars, pipeVars>>

\* Mutant of Relogin: after a failed Login the agent goes on polling.
ReloginThenPoll(ok) ==
  /\ agentPc = "relogin"
  /\ conns' = LoggedIn(ok)
  /\ agentPc' = "tick"
  /\ UNCHANGED <<inverter, backoff, attempts, polls, dialed>>
  /\ UNCHANGED <<waiters, waitersMu, ctxDone, callVars, muxVars, connVars,
                 loginVars, regVars, infoVars, codecVars, pipeVars>>

\* handleQueryError: Login again; return when it succeeded
Relogin(ok) ==
  /\ agentPc = "relogin"
  /\ conns' = LoggedIn(ok)
  /\ agentPc' = IF ok THEN "tick" ELSE "reconnect"
  /\ UNCHANGED <<inverter, backoff, attempts, polls, dialed>>
  /\ UNCHANGED <<waiters, waitersMu, ctxDone, callVars, muxVars, connVars,
                 loginVars, regVars, infoVars, codecVars, pipeVars>>

\* handleQueryError: err = connectToInverter(); backoff := time.Second;
\* attempts := 0; the loop is entered when err != nil
Reconnect(dialOk, env) ==
  /\ agentPc = "reconnect"
  /\ dialOk \in DialOutcomes
  /\ conns' = ConnectToInverter(dialOk, env).conns
  /\ inverter' = ConnectToInverter(dialOk, env).inverter
  /\ dialed' = ~dialed
  /\ backoff' = 1
  /\ attempts' = 0
  /\ agentPc' = IF dialOk THEN "tick" ELSE "sleep"
  /\ UNCHANGED polls
  /\ UNCHANGED <<waiters, waitersMu, ctxDone, callVars, muxVars, connVars,
                 loginVars, regVars, infoVars, codecVars, pipeVars>>

\* Mutant of NextBackoff: the delay is doubled at every attempt.
NextBackoffEveryAttempt ==
  IF backoff < 5 * 60
    THEN [backoff |-> backoff * 2, attempts |-> 0]
    ELSE [backoff |-> backoff, attempts |-> attempts]

\* handleQueryError: what one turn of the loop makes of backoff and attempts
NextBackoff ==
  IF backoff < 5 * 60
    THEN IF attempts + 1 >= 10
           THEN [backoff |-> backoff * 2, attempts |-> 0]
           ELSE [backoff |-> backoff, attempts |-> attempts + 1]
    ELSE [backoff |-> backoff, attempts |-> attempts]

\* Mutant of RetryConnect: the loop is left after ten failed attempts.
RetryConnectGivingUp(dialOk, env) ==
  /\ agentPc = "sleep"
  /\ dialOk \in DialOutcomes
  /\ IF attempts >= 9
       THEN /\ agentPc' = "exited"
            /\ UNCHANGED <<conns, inverter, dialed, backoff, attempts>>
       ELSE /\ conns' = ConnectToInverter(dialOk, env).conns
            /\ inverter' = ConnectToInverter(dialOk, env).inverter
            /\ dialed' = ~dialed
            /\ backoff' = NextBackoff.backoff
            /\ attempts' = NextBackoff.attempts
            /\ agentPc' = IF dialOk THEN "tick" ELSE "sleep"
  /\ UNCHANGED polls
  /\ UNCHANGED <<waiters, waitersMu, ctxDone, callVars, muxVars, connVars,
                 loginVars, regVars, infoVars, codecVars, pipeVars>>

\* handleQueryError: one turn of "for err != nil": time.Sleep(backoff),
\* connectToInverter(), the backoff; the loop ends when err is nil
RetryConnect(dialOk, env) ==
  /\ agentPc = "sleep"
  /\ dialOk \in DialOutcomes
  /\ conns' = ConnectToInverter(dialOk, env).conns
  /\ inverter' = ConnectToInverter(dialOk, env).inverter
  /\ dialed' = ~dialed
  /\ backoff' = NextBackoff.backoff
  /\ attempts' = NextBackoff.attempts
  /\ agentPc' = IF dialOk THEN "tick" ELSE "sleep"
  /\ UNCHANGED polls
  /\ UNCHANGED <<waiters, waitersMu, ctxDone, callVars, muxVars, connVars,
                 loginVars, regVars, infoVars, codecVars, pipeVars>>

\* The agent from its start, while no signal ends it: the dials, the
\* broadcasts, the Logins and the Queries succeed or fail as they may.
AgentNext ==
  \/ \E dialOk \in BOOLEAN, env \in HelloOutcomes : InitialConnect(dialOk, env)
  \/ \E ok \in BOOLEAN : InitialLogin(ok)
  \/ \E ok \in BOOLEAN : Poll(ok)
  \/ \E ok \in BOOLEAN : Relogin(ok)
  \/ \E dialOk \in BOOLEAN, env \in HelloOutcomes : Reconnect(dialOk, env)
  \/ \E dialOk \in BOOLEAN, env \in HelloOutcomes : RetryConnect(dialOk, env)

\* The main and query goroutines keep running (the Go scheduler); nothing
\* is assumed of the outcomes.
AgentSpec == Init /\ [][AgentNext]_vars /\ WF_vars(AgentNext)

(***************************************************************************)
(* QueryDeviceInfos (internal/solar/client.go)                             *)
(***************************************************************************)
\* The function code of the device-info call
FcDeviceInfo == 43

\* strings.Cut(s, sep): before, after, found
Cut(s, sep) ==
  IF \A i \in 1..Len(s) : s[i] # sep
    THEN <<s, <<>>, FALSE>>
    ELSE LET i == CHOOSE i \in 1..Len(s) :
                    s[i] = sep /\ \A j \in 1..(i - 1) : s[j] # sep
         IN <<SubSeq(s, 1, i - 1), SubSeq(s, i + 1, Len(s)), TRUE>>

\* strings.Split(s, sep)
RECURSIVE Split(_, _)
Split(s, sep) ==
  IF Cut(s, sep)[3]
    THEN <<Cut(s, sep)[1]>> \o Split(Cut(s, sep)[2], sep)
    ELSE <<s>>

\* obj.dataMap: empty unless the data contains "="; otherwise the data is
\* split at ";" and each part cut at its first "=", a later part replacing
\* an earlier one with the same key.
DataMap(data) ==
  IF ~Cut(data, 61)[3] THEN <<>>
  ELSE LET props == Split(data, 59)
           last(k) == CHOOSE i \in 1..Len(props) :
                        /\ Cut(props[i], 61)[1] = k
                        /\ \A j \in (i + 1)..Len(props) : Cut(props[j], 61)[1] # k
       IN [k \in {Cut(props[i], 61)[1] : i \in 1..Len(props)} |->
             Cut(props[last(k)], 61)[2]]

\* Payloads of the responses to the device-info call: none, shorter than
\* the header, the header alone, and the header followed by one byte, by
\* complete objects, by an object cut short, by objects with properties,
\* and by objects of 253, 254 and 255 bytes.
InfoPayloads ==
  LET hdr(n) == <<14, 3, 1, 0, 0, n>>
      fill(n) == [i \in 1..n |-> 48]
  IN { <<>>, <<14, 3, 1, 0>>, <<14, 3, 1, 0, 0>>, hdr(0), hdr(0) \o <<7>>,
       hdr(1) \o <<0, 2, 72, 87>>,
       hdr(2) \o <<0, 2, 72, 87, 1, 0>>,
       hdr(2) \o <<0, 2, 72, 87, 1, 3, 65>>,
       hdr(2) \o <<0, 2, 72, 87, 1>>,
       hdr(1) \o <<2, 3, 97, 61, 98>>,
       hdr(1) \o <<2, 9, 97, 61, 98, 59, 99, 59, 97, 61, 100>>,
       hdr(1) \o <<3, 253>> \o fill(253),
       hdr(1) \o <<3, 254>> \o fill(10),
       hdr(1) \o <<3, 254>> \o fill(254),
       hdr(2) \o <<3, 255>> \o fill(255) \o <<4, 1, 49>> }

\* QueryDeviceInfos: c.conn.FunctionCall(ctx, 0x2B, {0x0e, 0x03, 0x87})
QueryDeviceInfos ==
  /\ infoPc = "idle"
  /\ FunctionCallMint(1, 1, FcDeviceInfo, <<14, 3, 135>>)
  /\ infoPc' = "call"
  /\ UNCHANGED <<infoHeader, infoCursor, infoObjs>>
  /\ UNCHANGED <<waiters, waitersMu, ctxDone, muxVars, connVars, loginVars,
                 regVars, agentVars, codecVars, pipeVars>>

\* Mutant of InfoTooShort: payloads of 3 and 4 bytes pass the check.
InfoTooShortOfThree(data) == Len(data) < 3

\* QueryDeviceInfos: len(resp.Data) < 5
InfoTooShort(data) == Len(data) < 5

\* QueryDeviceInfos: FunctionCall has returned; an error ends it, and so
\* does a payload that is too short. Otherwise resp.Data[1] to
\* resp.Data[5] are read, which panics when the payload has no index 5, and
\* cursor := resp.Data[6:].
InfoCallReturned ==
  /\ infoPc = "call"
  /\ pc[1] = "done"
  /\ LET data == IF result[1].err = "none" THEN result[1].adu[1].data ELSE <<>>
     IN IF result[1].err # "none" \/ InfoTooShort(data)
          THEN /\ infoPc' = "returned"
               /\ UNCHANGED <<infoHeader, infoCursor>>
        ELSE IF Len(data) < 6
          THEN /\ infoPc' = "panicked"
               /\ infoHeader' = SubSeq(data, 2, Len(data))
               /\ UNCHANGED infoCursor
          ELSE /\ infoPc' = "loop"
               /\ infoHeader' = SubSeq(data, 2, 6)
               /\ infoCursor' = SubSeq(data, 7, Len(data))
  /\ UNCHANGED infoObjs
  /\ UNCHANGED <<waiters, waitersMu, ctxDone, callVars, muxVars, connVars,
                 loginVars, regVars, agentVars, codecVars, pipeVars>>

\* Mutant of InfoParse: the declared length is not compared with the bytes
\* that remain; the slice expression panics when it overruns.
InfoParseUnchecked ==
  /\ infoPc = "loop"
  /\ IF Len(infoCursor) < 2
       THEN /\ infoPc' = "returned"
            /\ UNCHANGED <<infoCursor, infoObjs>>
       ELSE LET objId == infoCursor[1]
                objLen == infoCursor[2]
                high == (2 + objLen) % 256
            IN IF high < 2 \/ high > Len(infoCursor)
                 THEN /\ infoPc' = "panicked"
                      /\ UNCHANGED <<infoCursor, infoObjs>>
                 ELSE /\ infoObjs' =
                           Append(infoObjs,
                                  [id |-> objId, data |-> SubSeq(infoCursor, 3, high),
                                   dataMap |-> DataMap(SubSeq(infoCursor, 3, high))])
                      /\ IF Len(infoCursor) > objLen + 2
                           THEN /\ infoCursor' = SubSeq(infoCursor, high + 1, Len(infoCursor))
                                /\ UNCHANGED infoPc
                           ELSE /\ infoCursor' = <<>>
                                /\ infoPc' = "returned"
  /\ UNCHANGED infoHeader
  /\ UNCHANGED <<waiters, waitersMu, ctxDone, callVars, muxVars, connVars,
                 loginVars, regVars, agentVars, codecVars, pipeVars>>

\* QueryDeviceInfos: one turn of "for cursor != nil". objLen is a byte, and
\* so are 2+(objLen) in cursor[2 : 2+(objLen)] and 2+objLen in
\* cursor[2+objLen:]: they wrap at 256, and a slice expression whose high
\* index is below its low index panics. The loop ends at a break or when
\* cursor is set to nil, and QueryDeviceInfos returns after logging objs.
InfoParse ==
  /\ infoPc = "loop"
  /\ IF Len(infoCursor) < 2
       THEN /\ infoPc' = "returned"
            /\ UNCHANGED <<infoCursor, infoObjs>>
       ELSE LET objId == infoCursor[1]
                objLen == infoCursor[2]
                high == (2 + objLen) % 256
            IN IF Len(infoCursor) - 2 < objLen
                 THEN /\ infoPc' = "returned"
                      /\ UNCHANGED <<infoCursor, infoObjs>>
               ELSE IF high < 2
                 THEN /\ infoPc' = "panicked"
                      /\ UNCHANGED <<infoCursor, infoObjs>>
                 ELSE /\ infoObjs' =
                           Append(infoObjs,
                                  [id |-> objId, data |-> SubSeq(infoCursor, 3, high),
                                   dataMap |-> DataMap(SubSeq(infoCursor, 3, high))])
                      /\ IF Len(infoCursor) > objLen + 2
                           THEN /\ infoCursor' = SubSeq(infoCursor, high + 1, Len(infoCursor))
                                /\ UNCHANGED infoPc
                           ELSE /\ infoCursor' = <<>>
                                /\ infoPc' = "returned"
  /\ UNCHANGED infoHeader
  /\ UNCHANGED <<waiters, waitersMu, ctxDone, callVars, muxVars, connVars,
                 loginVars, regVars, agentVars, codecVars, pipeVars>>

\* QueryDeviceInfos on a running multiplexer, its context expiring at any
\* time, and a device that answers with any of the payloads.
InfoNext ==
  \/ Run(1)
  \/ QueryDeviceInfos
  \/ InfoCallReturned
  \/ InfoParse
  \/ \E c \in Calls : CallStep(c)
  \/ \E s \in Runs : LoopStep(s)
  \/ \E d \in InfoPayloads : DeviceReply(d)
  \/ CtxCancel(1)

InfoSpec == Init /\ [][InfoNext]_vars

(***************************************************************************)
(* ModbusTCPADU.Marshal and ModbusTCPADU.Scan                              *)
(***************************************************************************)
\* The ADUs handed to Marshal: the requests FunctionCall builds, with
\* Length = uint16(len(data) + 2), for data of up to 65534 bytes, and ADUs
\* with another protocol id or another Length.
AduSamples ==
  LET adu(tid, pid, len, uid, fc, data) ==
        [tid |-> tid, pid |-> pid, len |-> len, uid |-> uid, fc |-> fc, data |-> data]
      zeros(n) == [i \in 1..n |-> 0]
  IN {adu(tid, 0, Len(data) + 2, uid, fc, data) :
        tid \in {0, 1, 255, 256, 4660, 65535}, uid \in {0, 1, 255},
        fc \in {0, 3, 43, 65, 255}, data \in {<<>>, <<0>>, <<255, 0>>, <<1, 2, 3>>}}
     \cup {adu(1235, 0, 65535, 1, 3, zeros(65533)),
           adu(1235, 0, 0, 1, 3, zeros(65534)),
           adu(1235, 1, 3, 1, 3, <<7>>),
           adu(1235, 0, 1, 1, 3, <<>>),
           adu(1235, 0, 4, 1, 3, <<7>>),
           adu(1235, 0, 3, 1, 3, <<7, 8>>)}

\* Mutant of Marshal: the transaction id is written low byte first.
MarshalLittleEndian(adu) ==
  << adu.tid % 256, adu.tid \div 256, adu.pid \div 256, adu.pid % 256,
     adu.len \div 256, adu.len % 256, adu.uid, adu.fc >> \o adu.data

\* ModbusTCPADU.Marshal: the 7 bytes of the header (transaction id,
\* protocol id, length, big-endian, and unit id), the function code and the
\* data.
Marshal(adu) ==
  << adu.tid \div 256, adu.tid % 256, adu.pid \div 256, adu.pid % 256,
     adu.len \div 256, adu.len % 256, adu.uid, adu.fc >> \o adu.data

\* ModbusTCPADU.Scan on a stream that holds the bytes b and then ends: the
\* 7 bytes of the header are read, the protocol id must be 0 and the length
\* at least 2, then 1 byte of function code and length - 2 bytes of data are
\* read; a read that gets fewer bytes than it asks for is an error.
Scan(b) ==
  IF Len(b) < 7 THEN [adu |-> <<>>, err |-> "unexpected EOF"]
  ELSE LET len == b[5] * 256 + b[6]
       IN IF b[3] * 256 + b[4] # 0
            THEN [adu |-> <<>>, err |-> "invalid protocol id"]
          ELSE IF len < 2
            THEN [adu |-> <<>>, err |-> "invalid length"]
          ELSE IF Len(b) < 6 + len
            THEN [adu |-> <<>>, err |-> "unexpected EOF"]
          ELSE [adu |-> <<[tid |-> b[1] * 256 + b[2], pid |-> 0, len |-> len,
                          uid |-> b[7], fc |-> b[8],
                          data |-> SubSeq(b, 9, 6 + len)]>>,
                err |-> "nil"]

\* transmitter: b := packet.Marshal()
MarshalPacket(adu) ==
  /\ aduIn = <<>>
  /\ aduIn' = <<adu>>
  /\ aduBytes' = Marshal(adu)
  /\ UNCHANGED aduOut
  /\ UNCHANGED <<waiters, waitersMu, ctxDone, callVars, muxVars, connVars,
                 loginVars, regVars, agentVars, infoVars, pipeVars>>

\* receiver: err := packet.Scan(c.conn), the peer having echoed the bytes
ScanPacket ==
  /\ aduIn # <<>> /\ aduOut.err = "none"
  /\ aduOut' = Scan(aduBytes)
  /\ UNCHANGED <<aduIn, aduBytes>>
  /\ UNCHANGED <<waiters, waitersMu, ctxDone, callVars, muxVars, connVars,
                 loginVars, regVars, agentVars, infoVars, pipeVars>>

\* An ADU is encoded and the bytes are decoded again.
CodecNext ==
  \/ \E adu \in AduSamples : MarshalPacket(adu)
  \/ ScanPacket

CodecSpec == Init /\ [][CodecNext]_vars

(***************************************************************************)
(* runAgent: the query and the publisher goroutine (README.md)             *)
(***************************************************************************)
\* dataCh := make(chan *solar.Data, 10)
DataChCap == 10

\* Mutant of QueryTick: a record is queued whatever the channel holds.
QueryTickAlwaysQueued(ok) ==
  /\ pipePc.query = "select"
  /\ polls < MaxRecords
  /\ polls' = polls + 1
  /\ dataCh' = IF ok THEN Append(dataCh, polls') ELSE dataCh
  /\ UNCHANGED <<pipePc, pubD, published, dropped>>
  /\ UNCHANGED <<agentPc, inverter, conns, backoff, attempts, dialed>>
  /\ UNCHANGED <<waiters, waitersMu, ctxDone, callVars, muxVars, connVars,
                 loginVars, regVars, infoVars, codecVars>>

\* query goroutine: case <-ticker.C: d, err := inverter.Query(ctx); on an
\* error handleQueryError and continue; otherwise the select that sends d
\* to dataCh or, by its default case, drops it. The record of a tick is
\* named by the number of the tick.
QueryTick(ok) ==
  /\ pipePc.query = "select"
  /\ polls < MaxRecords
  /\ polls' = polls + 1
  /\ IF ~ok THEN UNCHANGED <<dataCh, dropped>>
     ELSE IF Len(dataCh) < DataChCap
       THEN dataCh' = Append(dataCh, polls') /\ UNCHANGED dropped
       ELSE dropped' = dropped \cup {polls'} /\ UNCHANGED dataCh
  /\ UNCHANGED <<pipePc, pubD, published>>
  /\ UNCHANGED <<agentPc, inverter, conns, backoff, attempts, dialed>>
  /\ UNCHANGED <<waiters, waitersMu, ctxDone, callVars, muxVars, connVars,
                 loginVars, regVars, infoVars, codecVars>>

\* publisher goroutine: case d := <-dataCh
PublisherReceive ==
  /\ pipePc.publisher = "select"
  /\ dataCh # <<>>
  /\ pubD' = <<Head(dataCh)>>
  /\ dataCh' = Tail(dataCh)
  /\ pipePc' = [pipePc EXCEPT !.publisher = "publish"]
  /\ UNCHANGED <<published, dropped>>
  /\ UNCHANGED <<agentPc, inverter, conns, backoff, attempts, polls, dialed>>
  /\ UNCHANGED <<waiters, waitersMu, ctxDone, callVars, muxVars, connVars,
                 loginVars, regVars, infoVars, codecVars>>

\* publisher goroutine: json.Marshal(d), on an error continue; otherwise
\* mc.Publish and token.WaitTimeout, whose failure is only logged.
PublisherPublish(marshalOk) ==
  /\ pipePc.publisher = "publish"
  /\ published' = IF marshalOk THEN Append(published, pubD[1]) ELSE published
  /\ pubD' = <<>>
  /\ pipePc' = [pipePc EXCEPT !.publisher = "select"]
  /\ UNCHANGED <<dataCh, dropped>>
  /\ UNCHANGED <<agentPc, inverter, conns, backoff, attempts, polls, dialed>>
  /\ UNCHANGED <<waiters, waitersMu, ctxDone, callVars, muxVars, connVars,
                 loginVars, regVars, infoVars, codecVars>>

\* The signal that cancels runAgent's ctx.
Signal ==
  /\ ~ctxDone[1]
  /\ ctxDone' = [ctxDone EXCEPT ![1] = TRUE]
  /\ UNCHANGED <<waiters, waitersMu, callVars, muxVars, connVars, loginVars,
                 regVars, agentVars, infoVars, codecVars, pipeVars>>

\* Either goroutine: case <-ctx.Done(): return
GoroutineExit(g) ==
  /\ ctxDone[1]
  /\ pipePc[g] = "select"
  /\ pipePc' = [pipePc EXCEPT ![g] = "exited"]
  /\ UNCHANGED <<dataCh, pubD, published, dropped>>
  /\ UNCHANGED <<agentPc, inverter, conns, backoff, attempts, polls, dialed>>
  /\ UNCHANGED <<waiters, waitersMu, ctxDone, callVars, muxVars, connVars,
                 loginVars, regVars, infoVars, codecVars>>

\* The two goroutines from their start, the queries and the marshalling
\* succeeding or failing as they may, until a signal ends them; a select
\* with several ready cases takes any of them.
PipeNext ==
  \/ \E ok \in BOOLEAN : QueryTick(ok)
  \/ PublisherReceive
  \/ \E marshalOk \in BOOLEAN : PublisherPublish(marshalOk)
  \/ Signal
  \/ \E g \in {"query", "publisher"} : GoroutineExit(g)

PipeSpec == Init /\ [][PipeNext]_vars

(***************************************************************************)
(* FunctionCall with request data of any length                            *)
(***************************************************************************)
\* The data a caller hands to FunctionCall: a byte slice of any length,
\* here none, the three bytes of the device-info request, and the lengths
\* around the largest that the 16-bit length field can express.
CallData ==
  LET zeros(n) == [i \in 1..n |-> 0]
  IN {<<>>, <<14, 3, 135>>, zeros(65533), zeros(65534), zeros(65535)}

\* FunctionCall(ctx, fc, data) up to the request it builds
FunctionCall(fc, data) ==
  /\ FunctionCallMint(1, 1, fc, data)
  /\ UNCHANGED <<waiters, waitersMu, ctxDone, muxVars, connVars, loginVars,
                 regVars, agentVars, infoVars, codecVars, pipeVars>>

\* One call with any function code and data on a running multiplexer, and
\* a device that answers it.
BuildNext ==
  \/ Run(1)
  \/ \E fc \in {FcReadHolding, FcDeviceInfo}, data \in CallData : FunctionCall(fc, data)
  \/ \E c \in Calls : CallStep(c)
  \/ \E s \in Runs : LoopStep(s)
  \/ DeviceReply(<<1>>)
  \/ CtxCancel(1)

BuildSpec == Init /\ [][BuildNext]_vars

(***************************************************************************)
(* Correlation of requests and responses (Spec)                            *)
(***************************************************************************)
\* Call c has registered its entry.
Registered(c) == pc[c] \in {"send", "await", "done"}
\* Call c is blocked in one of its two selects.
Waiting(c) == pc[c] \in {"send", "await"}
\* Call c returned a cancellation error.
Cancelled(c) == pc[c] = "done" /\ result[c].err # "none"
\* The entry call c registered.
Entry(c) == [tid |-> callTid[c], ch |-> c]
\* In this step the fanout of Run s looks up the id of its packet.
LookupStep(s) == fanPc[s] = "lock" /\ fanPc'[s] = "delete"
\* In this step the fanout of Run s removes the entry of the id of its packet.
DeleteStep(s) == fanPc[s] = "delete" /\ fanPc'[s] # "delete"

\* C1: every call that returns a response returns the ADU whose transaction
\* id is the transaction id of its own request, whatever the number of
\* outstanding calls and the order in which the responses arrive.
C1_OwnResponse ==
  \A c \in Calls :
    result[c].adu # <<>> => result[c].adu[1].tid = callReq[c][1].tid

\* Calls 1 and 2 are outstanding together, request 1 was written before
\* request 2, call 2 has returned its response and the response of call 1
\* is still on the wire.
C1_Witness ==
  /\ pc[1] = "await" /\ pc[2] = "done"
  /\ result[2].adu # <<>>
  /\ callTid[1] # callTid[2]
  /\ Len(written) = 2 /\ written[1] = callReq[1][1] /\ written[2] = callReq[2][1]
  /\ wire # <<>> /\ Head(wire).tid = callTid[1]

\* C2 as stated: per transaction id at most one response is ever delivered
\* to a caller; a later response with that id is delivered to no caller.
C2_OnePerId ==
  \A i \in TxIds :
    Cardinality({c \in Calls : pc[c] # "idle" /\ callTid[c] = i /\ delivered[c] > 0}) <= 1

\* C2 amended: every call is delivered at most one response, and once a
\* response was dispatched to a call the call's entry is no longer in the
\* table: a further response with that id is dropped, unless a later call
\* registered the same id (after the counter wrapped), and then it goes to
\* that later call, which has had none.
C2_OnePerCall ==
  /\ \A c \in Calls :
       /\ delivered[c] <= 1
       /\ delivered[c] = 1 => Entry(c) \notin waiters
  /\ \A s \in Runs :
       fanPc[s] = "deliver" => delivered[fanCh[s]] = 0 /\ chanBuf[fanCh[s]] = <<>>

\* A response was dispatched to call c, and the fanout has found no entry
\* for a second frame with the same id.
C2_Witness ==
  \E c \in Calls :
    /\ delivered[c] = 1
    /\ fanPc[1] = "delete" /\ fanCh[1] = 0
    /\ fanPkt[1][1].tid = callTid[c]

\* C6 as stated: when the id of the looked-up response is held by cancelled
\* calls only, the fanout finds no entry.
C6_NoEntryAfterCancel ==
  [][\A s \in Runs :
       (/\ LookupStep(s)
        /\ \E c \in Calls : Cancelled(c) /\ callTid[c] = fanPkt[s][1].tid
        /\ \A c \in Calls :
             Registered(c) /\ callTid[c] = fanPkt[s][1].tid => Cancelled(c))
       => fanCh'[s] = 0]_vars

\* C6 amended: a response that arrives for an already cancelled call is
\* delivered to no caller, but not on the no-waiter path: the fanout finds
\* the entry the call left behind (when no response and no later call with
\* that id has taken it), removes it and puts the ADU in the entry's
\* channel, which has room for it and is never read.
C6_CancelledBuffered ==
  /\ [][\A s \in Runs : \A c \in Calls :
          (/\ LookupStep(s)
           /\ Cancelled(c) /\ callTid[c] = fanPkt[s][1].tid
           /\ delivered[c] = 0
           /\ \A d \in Calls \ {c} : Registered(d) => callTid[d] # callTid[c])
          => fanCh'[s] = c]_vars
  /\ [](\A c \in Calls :
          Cancelled(c) => /\ result[c].adu = <<>>
                          /\ Len(chanBuf[c]) = delivered[c])
  /\ [](\A s \in Runs :
          fanPc[s] = "deliver" /\ Cancelled(fanCh[s]) => chanBuf[fanCh[s]] = <<>>)

\* Call c returned a cancellation error and afterwards a response with its
\* id was put in its channel.
C6_Witness ==
  \E c \in Calls :
    /\ Cancelled(c)
    /\ chanBuf[c] # <<>> /\ chanBuf[c][1].tid = callTid[c]
    /\ Entry(c) \notin waiters

\* C7: a call that returns a cancellation error leaves the table as it is;
\* an entry leaves the table only when the fanout dispatches a response
\* with its id or when another call registers the same id.
C7_EntryAbandoned ==
  /\ [][\A c \in Calls :
          (Waiting(c) /\ pc'[c] = "done" /\ result'[c].err # "none")
          => waiters' = waiters]_vars
  /\ [][\A c \in Calls :
          (Entry(c) \in waiters /\ Entry(c) \notin waiters')
          => \/ \E s \in Runs : DeleteStep(s) /\ fanPkt[s][1].tid = callTid[c]
             \/ \E d \in Calls \ {c} :
                  /\ pc[d] = "waiter" /\ pc'[d] = "send"
                  /\ callTid[d] = callTid[c]]_vars

\* A call has returned a cancellation error, its entry is still in the
\* table, and the table holds more entries than there are calls waiting.
C7_Witness ==
  \E c \in Calls :
    /\ Cancelled(c)
    /\ Entry(c) \in waiters
    /\ Cardinality(waiters) > Cardinality({d \in Calls : Waiting(d)})

\* C8 as stated: while fewer than 2^16 ids were minted since call c
\* registered its entry and c is still waiting, no other call is given the
\* id of c.
C8_NoReuseSinceRegistered ==
  \A c \in Calls : \A d \in Calls :
    (/\ Waiting(c) /\ pc[d] # "idle"
     /\ d > regAt[c]
     /\ d - regAt[c] < TxIdSpace)
    => callTid[d] # callTid[c]

\* C8 amended: the table holds at most one entry per transaction id;
\* consecutive calls get consecutive ids modulo 2^16; two calls have the
\* same id exactly when the number of ids minted from the one to the other
\* is a multiple of 2^16, so while fewer than 2^16 ids were minted since a
\* call minted its id (not: since it registered its entry) no other call
\* has that id and no insertion replaces its entry.
C8_IdsAndEntries ==
  /\ \A v \in waiters : \A w \in waiters : v.tid = w.tid => v = w
  /\ \A c \in Calls : \A d \in Calls :
       (c < d /\ pc[d] # "idle")
       => /\ d = c + 1 => callTid[d] = (callTid[c] + 1) % TxIdSpace
          /\ callTid[c] = callTid[d] <=> (d - c) % TxIdSpace = 0
  /\ \A w \in waiters : Registered(w.ch) /\ callTid[w.ch] = w.tid

\* The counter has wrapped: calls 1 and 1 + 2^16 hold the same id, both are
\* waiting, and the entry of the later one has replaced the earlier one's.
C8_Witness ==
  /\ 1 + TxIdSpace \in Calls
  /\ Waiting(1) /\ Waiting(1 + TxIdSpace)
  /\ callTid[1] = callTid[1 + TxIdSpace]
  /\ waiters = {Entry(1 + TxIdSpace)}

(***************************************************************************)
(* Life cycle of the loops and cancellation of calls (LifeSpec)            *)
(***************************************************************************)
\* C3: when one of the three loops of a Run exits, the other two exit as
\* well, Run returns and the connection is closed.
C3_AllLoopsExit ==
  \A s \in Runs :
    LoopExited(s) ~> (runPc[s] = "returned" /\ connClosed)

\* C4: a Run called while another Run on the same ModbusConn is active
\* fails at once and starts no second set of loops: at most one Run has
\* its receiver, transmitter and fanout started and not yet returned.
C4_OneSession ==
  Cardinality({s \in Runs : runPc[s] = "running"}) <= 1

\* C5 as stated: a call whose context is done before it has taken a
\* response returns a nil ADU and a cancellation error.
C5_CancelledReturnsError ==
  [][\A c \in Calls :
       (Waiting(c) /\ CtxDone(c) /\ pc'[c] = "done")
       => result'[c].adu = <<>> /\ result'[c].err # "none"]_vars

\* C5 amended: a call whose context is done never stays blocked, in either
\* select; it returns a nil ADU with a cancellation error, or, when its
\* response is in its channel at that moment, it may return that response.
C5_CancelUnblocks ==
  /\ \A c \in Calls : (Waiting(c) /\ CtxDone(c)) ~> pc[c] = "done"
  /\ [][\A c \in Calls :
          (Waiting(c) /\ CtxDone(c) /\ pc'[c] = "done")
          => \/ result'[c].adu = <<>> /\ result'[c].err # "none"
             \/ /\ pc[c] = "await" /\ chanBuf[c] # <<>>
                /\ result'[c] = [adu |-> chanBuf[c], err |-> "none"]]_vars

\* A call returned a cancellation error from its second select while the
\* loops were running.
C5_Witness ==
  \E c \in Calls :
    /\ pc[c] = "done"
    /\ result[c] = CancelResult("cancelled waiting to receive")
    /\ runPc[1] = "running" /\ ~LoopExited(1)

(***************************************************************************)
(* Login (LoginSpec)                                                       *)
(***************************************************************************)
\* Login has returned nil.
LoginSucceeded == loginPc = "returned" /\ loginErr = "nil"
\* The payload the login-init call returned.
InitPayload == result[1].adu[1].data
\* A challenge-response request (subcommand 0x25) was written to the socket.
ChallengeResponseSent ==
  \E i \in 1..Len(written) : written[i].fc = FcLogin /\ written[i].data[1] = 37

\* C9: Login returns nil only when the device accepted the credentials: a
\* final response whose result code is one of the failure codes is never
\* answered with a nil error.
C9_RejectionSurfaced ==
  LoginSucceeded => ResultCode(result[2].adu[1].data) \notin LoginFailureCodes

\* C10: with fewer than 18 bytes of login-init payload Login returns an
\* error and no challenge-response request is ever built or sent; otherwise
\* the challenge is bytes [2,18) of the payload, and it is the one hashed
\* into the challenge-response request.
C10_ChallengeBytes ==
  /\ (pc[1] = "done" /\ result[1].adu # <<>> /\ Len(InitPayload) < 18 /\ loginPc # "init")
     => /\ loginPc = "returned" /\ loginErr = "invalid response data length"
        /\ pc[2] = "idle"
        /\ ~ChallengeResponseSent
  /\ (pc[2] # "idle" \/ ChallengeResponseSent \/ loginPc \in {"sleep", "response"})
     => /\ result[1].adu # <<>> /\ Len(InitPayload) >= 18
        /\ loginChallenge = [i \in 1..16 |-> InitPayload[i + 2]]
  /\ pc[2] # "idle"
     => callReq[2][1].data
          = PartTwoReqData(Username,
                           LoginHash(Password, [i \in 1..16 |-> InitPayload[i + 2]]))

\* The login-init response had 17 bytes and Login returned the length error.
C10_Witness ==
  /\ loginPc = "returned" /\ loginErr = "invalid response data length"
  /\ Len(InitPayload) = 17


\* The login requests handed to the transmitter so far, in order.
LoginHandedOver == written \o txPkt[1]
\* The positions in LoginHandedOver of the requests with subcommand sub.
LoginRequestsAt(sub) ==
  {i \in 1..Len(LoginHandedOver) : LoginHandedOver[i].data[1] = sub}

\* C11: Login goes through its steps in order: the init request (0x24) is
\* the first request handed over, the challenge-response request (0x25) is
\* built and handed over only after the init call returned a response with a
\* challenge, at most one request of each kind is handed over, and a failed
\* step ends Login with an error and without any later step.
C11_LoginOrder ==
  /\ loginPc = "idle" => pc[1] = "idle" /\ pc[2] = "idle" /\ LoginHandedOver = <<>>
  /\ loginPc = "init" => pc[1] # "idle" /\ pc[2] = "idle"
  /\ pc[2] # "idle"
     => /\ pc[1] = "done" /\ result[1].err = "none"
        /\ Len(InitPayload) >= 18
        /\ loginPc \in {"response", "returned"}
  /\ Cardinality(LoginRequestsAt(36)) <= 1
  /\ Cardinality(LoginRequestsAt(37)) <= 1
  /\ \A i \in LoginRequestsAt(37) : \E j \in LoginRequestsAt(36) : j < i
  /\ LoginRequestsAt(36) # {} => pc[1] \in {"await", "done"}
  /\ LoginRequestsAt(37) # {} => pc[2] \in {"await", "done"}
  /\ (loginPc = "returned" /\ pc[2] = "idle")
     => loginErr \in {"err doing PDU for login init", "invalid response data length"}
  /\ (loginPc = "returned" /\ pc[2] # "idle")
     => /\ pc[2] = "done"
        /\ loginErr = IF result[2].err = "none" THEN "nil" ELSE "error on part 2 of login"

\* Login returned nil after both requests were written, in order.
C11_Witness ==
  /\ LoginSucceeded
  /\ Len(written) = 2 /\ written[1].data[1] = 36 /\ written[2].data[1] = 37

\* C12: once Login's context is done (timeout or cancellation), Login
\* starts no further FunctionCall and no request is handed to the
\* transmitter.
C12_NothingAfterExpiry ==
  [][ctxDone[1] => /\ txId' = txId
                   /\ txPc'[1] = "write" => txPc[1] = "write"]_vars

(***************************************************************************)
(* Register reads and Query (RegSpec)                                      *)
(***************************************************************************)
\* The registers the read in progress asks for, by its arguments.
ReadNeeds ==
  IF readArgs.t = "raw" THEN readArgs.quantityT
  ELSE RegistersNeeded(readArgs.quantityT, readArgs.t)
\* The read in progress called FunctionCall, and that call has returned.
ReadCalled ==
  /\ readPc = "returned"
  /\ readRes.err \notin {"more than 125 registers", "quantity must be between 1 and 125"}
\* QueryFieldDone sets a field whose kind is in kinds.
FieldSet(kinds) ==
  qPc = "reading" /\ qPc' = "loop" /\ qSchema[qField].kind \in kinds
\* The indices of the fields of the struct that have a modbus_addr tag.
Tagged == {i \in 1..Len(qSchema) : qSchema[i].addr # 0}

\* C16: a read made directly (no other call before it) that needs fewer
\* than 1 or more than 125 registers returns an error, and no transaction
\* id is minted, no entry registered and no request handed over for it.
C16_RejectedLocally ==
  (qPc = "idle" /\ readPc # "idle" /\ (ReadNeeds < 1 \/ ReadNeeds > 125))
  => /\ readPc = "returned" /\ readRes.err \notin {"none", "nil"}
     /\ txId = InitialTxId % CounterSpace /\ Minted = 0
     /\ waiters = {}
     /\ LoginHandedOver = <<>>

\* C17: a read of q registers that called FunctionCall succeeds exactly when
\* the call returned a response whose first data byte is 2q and which has
\* exactly 2q bytes after it; it then returns exactly these 2q bytes, and
\* otherwise an error and no bytes.
C17_ExactByteCount ==
  ReadCalled
  => /\ readRes.err = "nil"
        <=> /\ result[Minted].err = "none"
            /\ Len(result[Minted].adu[1].data) >= 1
            /\ result[Minted].adu[1].data[1] = 2 * readArgs.quantity
            /\ Len(result[Minted].adu[1].data) - 1 = 2 * readArgs.quantity
     /\ readRes.err = "nil"
        => /\ Len(readRes.values) = 2 * readArgs.quantity
           /\ \A i \in 1..Len(readRes.values) :
                readRes.values[i] = result[Minted].adu[1].data[i + 1]
     /\ readRes.err # "nil" => readRes.values = <<>> /\ readRes.results = <<>>

\* A response with the right byte count and one byte too many was refused.
C17_Witness ==
  /\ ReadCalled
  /\ readRes.err = "payload size does not match"
  /\ Len(result[Minted].adu[1].data) - 1 > 2 * readArgs.quantity

\* C18: the value a numeric field is set to, times the declared scale, is
\* the raw register integer, whatever the kind of the field.
C18_ScaleLaw ==
  [][FieldSet({"float", "int", "uint"})
     => qRecord'[qField][1].num * qSchema[qField].scalar
          = readRes.results[1] * qRecord'[qField][1].den]_vars

\* C19: Query returns nil together with the struct, every tagged field of
\* which was set from a read that succeeded, or an error and no struct; and
\* after a failed read of a field no further read is started: the calls
\* made are at most those of the fields up to the failed one, and none is
\* in progress.
C19_AllOrNothing ==
  qPc = "returned"
  => /\ readPc = "idle"
     /\ \A c \in 1..Minted : pc[c] = "done"
     /\ IF qOut.err = "nil"
          THEN /\ qOut.rec = <<qRecord>>
               /\ \A i \in Tagged : qRecord[i] # <<>>
               /\ Minted = Cardinality(Tagged)
               /\ \A c \in 1..Minted : result[c].err = "none"
          ELSE /\ qOut.rec = <<>>
               /\ Minted <= Cardinality({i \in Tagged : i <= qField})
               /\ \A i \in 1..Len(qSchema) : i >= qField => qRecord[i] = <<>>

\* Query returned an error after a first field had been set.
C19_Witness ==
  /\ qPc = "returned" /\ qOut.err = "failed to read"
  /\ qSchema = DataSchema /\ qField = 3 /\ qRecord[2] # <<>>

\* C20: the value a string field is set to has no NUL at its end, is a
\* prefix of the bytes of the field, and the bytes left out are all NUL.
C20_TrailingNulsStripped ==
  [][FieldSet({"string"})
     => LET b == SubSeq(readRes.results, 1, qSchema[qField].strLen)
            str == qRecord'[qField][1]
        IN /\ str = <<>> \/ str[Len(str)] # 0
           /\ Len(str) <= Len(b)
           /\ \A i \in 1..Len(str) : str[i] = b[i]
           /\ \A i \in (Len(str) + 1)..Len(b) : b[i] = 0]_vars

\* A string field was set from bytes with a NUL in the middle and two or
\* more at the end.
C20_Witness ==
  /\ qSchema = StringSchema
  /\ qRecord # <<>> /\ qRecord[1] = << <<65, 0, 66>> >>

(***************************************************************************)
(* Connecting and recovering (AgentSpec)                                   *)
(***************************************************************************)
\* The agent is in handleQueryError.
Recovering == agentPc \in {"relogin", "reconnect", "sleep"}
\* The step replaces or drops the agent's connection.
ConnectStep == inverter' # inverter \/ Len(conns') # Len(conns)

\* C13: on every connection a Query was issued on, the multiplexer had been
\* started and a Login had been run before the first Query.
C13_LoginBeforeQuery ==
  \A g \in 1..Len(conns) :
    conns[g].queries = 1 => conns[g].run /\ ~conns[g].early

\* C14: a failed Query is followed by a Login on the same, still open
\* connection; the connection is replaced only after that Login returned an
\* error; and no Query is issued during the recovery, which ends only with a
\* Login that succeeded or a connect that succeeded.
C14_RecoveryOrder ==
  [][/\ (agentPc = "tick" /\ agentPc' # "tick")
        => /\ agentPc' = "relogin"
           /\ ~ConnectStep /\ ~conns'[inverter].closed
     /\ agentPc = "relogin"
        => /\ ~ConnectStep /\ ~conns'[inverter].closed
           /\ conns'[inverter].logins = 1
           /\ agentPc' = IF conns'[inverter].lastLogin = "ok"
                           THEN "tick" ELSE "reconnect"
     /\ (agentPc # "start" /\ ConnectStep) => agentPc \in {"reconnect", "sleep"}
     /\ agentPc' = "reconnect" => agentPc = "relogin"
     /\ polls' # polls => ~Recovering
     /\ (Recovering /\ agentPc' = "tick")
        => IF agentPc = "relogin"
             THEN conns'[inverter].lastLogin = "ok"
             ELSE inverter' = Len(conns) + 1 /\ ~conns'[inverter'].closed]_vars

\* After a failed Query and a failed Login the agent polls again on a
\* second connection.
C14_Witness ==
  /\ agentPc = "tick" /\ inverter = 2
  /\ conns[1].closed /\ conns[1].lastLogin = "err"

C21_StopsAtOverrun ==
  /\ [](infoPc = "loop"
        => LET data == result[1].adu[1].data
           IN /\ Len(infoCursor) <= Len(data) - 6
              /\ infoCursor = SubSeq(data, Len(data) - Len(infoCursor) + 1, Len(data)))
  /\ [][(/\ infoPc = "loop"
         /\ IF Len(infoCursor) < 2 THEN TRUE
            ELSE infoCursor[2] > Len(infoCursor) - 2)
        => infoPc' = "returned" /\ infoObjs' = infoObjs]_vars
  /\ [][infoObjs' # infoObjs
        => /\ 2 + infoCursor[2] <= Len(infoCursor)
           /\ infoObjs' = Append(infoObjs, infoObjs'[Len(infoObjs')])
           /\ infoObjs'[Len(infoObjs')].data = SubSeq(infoCursor, 3, 2 + infoCursor[2])]_vars

\* The parse stopped at a second object that declares 3 bytes and has 1,
\* and the first object is kept.
C21_Witness ==
  /\ infoPc = "returned"
  /\ infoCursor = <<1, 3, 65>>
  /\ Len(infoObjs) = 1 /\ infoObjs[1].data = <<72, 87>>

\* C22: a response whose payload has fewer than 5 bytes is rejected: no
\* byte of the summary header is read and no object is parsed.
C22_ShortPayloadRejected ==
  (/\ infoPc \notin {"idle", "call"}
   /\ result[1].err = "none"
   /\ Len(result[1].adu[1].data) < 5)
  => /\ infoPc = "returned"
     /\ infoHeader = <<>> /\ infoCursor = <<>> /\ infoObjs = <<>>

\* A response with a payload of 4 bytes was rejected.
C22_Witness ==
  /\ infoPc = "returned"
  /\ result[1].err = "none"
  /\ Len(result[1].adu[1].data) = 4

(***************************************************************************)
(* The broadcast hello (AgentSpec)                                         *)
(***************************************************************************)
\* C23: on the initial connect and on every reconnect the broadcast hello
\* is sent before the TCP connection to the inverter is opened.
C23_HelloBeforeDial ==
  \A g \in 1..Len(conns) :
    \E i \in 1..Len(conns[g].trace) : \E j \in 1..Len(conns[g].trace) :
      /\ conns[g].trace[i] = "hello" /\ conns[g].trace[j] = "dial"
      /\ i < j

\* C24: BroadcastHello returns nil whenever it has sent the 12-byte
\* datagram, with or without a reply; it returns an error only when self is
\* no IPv4 address, the UDP socket cannot be opened or the send fails; and
\* whatever it returns, the multiplexer of the connection is started.
C24_HelloErrors ==
  \A g \in 1..Len(conns) :
    /\ conns[g].helloEnv \in {"Read fails", "reply"}
       => /\ conns[g].hello = "sent"
          /\ conns[g].helloErr = "nil"
    /\ conns[g].helloErr # "nil"
       => /\ conns[g].helloEnv \in {"self not IPv4", "DialUDP fails", "Write fails"}
          /\ conns[g].hello = "failed"
    /\ conns[g].run
    /\ "run" = conns[g].trace[Len(conns[g].trace)]

\* On one connection the datagram was sent and no reply came, on the next
\* the send failed, and the agent polls on it.
C24_Witness ==
  /\ Len(conns) = 2 /\ inverter = 2
  /\ conns[1].helloEnv = "Read fails" /\ conns[1].helloErr = "nil"
  /\ conns[2].helloEnv = "Write fails" /\ conns[2].helloErr # "nil"
  /\ conns[2].run /\ conns[2].queries = 1

(***************************************************************************)
(* The status text (RegSpec)                                               *)
(***************************************************************************)
\* C25: the status text of the record Query returns is the table's entry
\* for the record's status code, "Unknown" for a code the table does not
\* have; the code is the register read in this poll, and the text is set
\* only when every register field has been set.
C25_StatusText ==
  qSchema = DataSchema
  => /\ (qPc = "returned" /\ qOut.err = "nil")
        => LET d == qOut.rec[1]
               code == d[4][1].num
           IN /\ d[5] = <<IF code \in DOMAIN deviceStatusDefinitions
                            THEN deviceStatusDefinitions[code] ELSE "Unknown">>
              /\ code = 256 * result[3].adu[1].data[2] + result[3].adu[1].data[3]
              /\ \A i \in Tagged : d[i] # <<>>
     /\ \A i \in 1..Len(qRecord) :
          (qSchema[i].name = "DeviceStatusText" /\ qRecord[i] # <<>>)
          => qPc = "returned" /\ qOut.err = "nil"

\* Query returned a record whose status code 0x0200 has the text "On-grid".
C25_Witness ==
  /\ qSchema = DataSchema /\ qPc = "returned" /\ qOut.err = "nil"
  /\ qOut.rec[1][4][1].num = 512
  /\ qOut.rec[1][5] = <<"On-grid">>

(***************************************************************************)
(* The ADU framer (CodecSpec)                                              *)
(***************************************************************************)
\* C26: decoding the bytes an ADU was encoded to yields the ADU, for every
\* transaction id, unit id, function code and data of at most 65533 bytes,
\* the length field being 2 + len(data); the encoding has 8 + len(data)
\* bytes.
C26_RoundTrip ==
  (/\ aduOut.err # "none"
   /\ aduIn[1].pid = 0
   /\ aduIn[1].len = 2 + Len(aduIn[1].data)
   /\ Len(aduIn[1].data) <= 65533)
  => /\ aduOut = [adu |-> aduIn, err |-> "nil"]
     /\ Len(aduBytes) = 8 + Len(aduIn[1].data)

\* An ADU with transaction id 0x1234, unit id 255 and 3 bytes of data was
\* encoded to 11 bytes and decoded.
C26_Witness ==
  /\ aduOut.err = "nil"
  /\ aduIn[1].tid = 4660 /\ aduIn[1].uid = 255 /\ aduIn[1].data = <<1, 2, 3>>
  /\ aduBytes = <<18, 52, 0, 0, 0, 5, 255, 65, 1, 2, 3>>
  /\ aduOut.adu = aduIn

(***************************************************************************)
(* The dispatcher and the table (Spec)                                     *)
(***************************************************************************)
\* C27: in every FunctionCall the entry of the request's transaction id is
\* put in the table before the request is handed to the transmitter: the
\* step that leaves waiter() inserts the entry and hands nothing over, the
\* hand-over is taken by a call that has registered, and every request the
\* transmitter holds or has written is that of a call that had registered.
C27_EntryBeforeSend ==
  /\ [][\A c \in Calls :
          (pc[c] = "waiter" /\ pc'[c] # "waiter")
          => /\ pc'[c] = "send"
             /\ Entry(c) \in waiters'
             /\ txPkt' = txPkt /\ written' = written]_vars
  /\ [][\A c \in Calls :
          (pc[c] # "await" /\ pc'[c] = "await")
          => regAt[c] > 0 /\ regAt'[c] = regAt[c]]_vars
  /\ [](\A s \in Runs :
          /\ txPkt[s] # <<>>
             => \E c \in Calls : regAt[c] > 0 /\ callReq[c] = txPkt[s]
          /\ \A i \in 1..Len(written) :
               \E c \in Calls : regAt[c] > 0 /\ callReq[c] = <<written[i]>>)

\* The request of call 1 was written, its entry is in the table and the
\* fanout holds a response with its id that it has not looked up yet.
C27_Witness ==
  /\ pc[1] = "await" /\ written = callReq[1]
  /\ Entry(1) \in waiters
  /\ fanPc[1] = "lock" /\ fanPkt[1][1].tid = callTid[1]

\* C28: when the fanout looks up an ADU whose transaction id has no entry,
\* it finds no channel, and its next step leaves the table, the channels
\* and the results of all calls as they are, delivers nothing, and takes
\* the fanout back to its select with no packet, the loops running on.
C28_NoWaiterNoEffect ==
  /\ [][\A s \in Runs :
          (LookupStep(s) /\ \A w \in waiters : w.tid # fanPkt[s][1].tid)
          => fanCh'[s] = 0 /\ waiters' = waiters /\ chanBuf' = chanBuf]_vars
  /\ [][\A s \in Runs :
          (DeleteStep(s) /\ fanCh[s] = 0)
          => /\ waiters' = waiters
             /\ chanBuf' = chanBuf /\ delivered' = delivered /\ result' = result
             /\ pc' = pc
             /\ fanPc'[s] = "select" /\ fanPkt'[s] = <<>>
             /\ rxPc' = rxPc /\ txPc' = txPc /\ runPc' = runPc]_vars

\* Call 1 waits for its response; a first ADU found no entry and was
\* dropped, and the fanout has gone on to the second ADU, which it delivers
\* to call 1.
C28_Witness ==
  /\ framesSent = 2 /\ wire = <<>> /\ rxPkt[1] = <<>>
  /\ pc[1] = "await" /\ pc[2] = "idle"
  /\ fanPc[1] = "deliver" /\ fanCh[1] = 1
  /\ delivered[1] = 0

\* C30: while the fanout is between its lookup and its removal no entry is
\* inserted: the table does not change until the removal, and the removal
\* takes out exactly the entry that was looked up (none when none was
\* found), whose channel is the one the ADU is then put in.
C30_LookupDeleteAtomic ==
  /\ [][\A s \in Runs :
          fanPc[s] = "delete"
          => IF DeleteStep(s)
               THEN /\ waiters' = waiters \ {[tid |-> fanPkt[s][1].tid, ch |-> fanCh[s]]}
                    /\ fanCh[s] # 0
                       => /\ [tid |-> fanPkt[s][1].tid, ch |-> fanCh[s]] \in waiters
                          /\ fanPc'[s] = "deliver" /\ fanCh'[s] = fanCh[s]
                    /\ fanCh[s] = 0 => waiters' = waiters
               ELSE waiters' = waiters]_vars
  /\ [][\A s \in Runs :
          (fanPc[s] = "deliver" /\ fanPc'[s] # "deliver")
          => /\ chanBuf'[fanCh[s]] = fanPkt[s]
             /\ \A c \in Calls \ {fanCh[s]} : chanBuf'[c] = chanBuf[c]]_vars

\* The fanout has looked up the entry of call 1 and not yet removed it,
\* while call 3, which has the same transaction id, is about to insert its
\* entry.
C30_Witness ==
  /\ fanPc[1] = "delete" /\ fanCh[1] = 1 /\ waitersMu = 1
  /\ pc[3] = "waiter" /\ callTid[3] = callTid[1]

C31_ObjectOfDeclaredLength ==
  [][(/\ infoPc = "loop"
      /\ infoPc' # "loop" \/ infoCursor' # infoCursor \/ infoObjs' # infoObjs
      /\ IF Len(infoCursor) < 2 THEN FALSE
         ELSE infoCursor[2] <= Len(infoCursor) - 2)
     => LET L == infoCursor[2]
        IN /\ Len(infoObjs') = Len(infoObjs) + 1
           /\ infoObjs' = Append(infoObjs, infoObjs'[Len(infoObjs')])
           /\ infoObjs'[Len(infoObjs')].id = infoCursor[1]
           /\ infoObjs'[Len(infoObjs')].data = SubSeq(infoCursor, 3, 2 + L)
           /\ infoCursor' = SubSeq(infoCursor, 2 + L + 1, Len(infoCursor))
           /\ infoPc' = IF Len(infoCursor) > 2 + L THEN "loop" ELSE "returned"]_vars

\* C38: for a payload of any length QueryDeviceInfos reads no index outside
\* the payload: a payload that passes the minimum-length check has the
\* bytes at offsets 1 to 5 and can be sliced from offset 6.
C38_HeaderInsidePayload ==
  [][(infoPc = "call" /\ infoPc' # "call" /\ result[1].err = "none"
      /\ ~InfoTooShort(result[1].adu[1].data))
     => LET data == result[1].adu[1].data
        IN /\ Len(data) >= 6
           /\ infoPc' = "loop"
           /\ infoHeader' = SubSeq(data, 2, 6)
           /\ infoCursor' = SubSeq(data, 7, Len(data))]_vars


(***************************************************************************)
(* The request ADU (BuildSpec)                                             *)
(***************************************************************************)
\* C34: every request ADU that FunctionCall builds carries protocol id 0,
\* the unit id of the connection, the given function code and data, and a
\* length field equal to 2 + len(data), whatever the length of the data.
C34_RequestFields ==
  [][\A fc \in {FcReadHolding, FcDeviceInfo}, data \in CallData :
       FunctionCall(fc, data)
       => callReq'[1] = <<[tid |-> callTid'[1], pid |-> 0, len |-> 2 + Len(data),
                           uid |-> SlaveId, fc |-> fc, data |-> data]>>]_vars


(***************************************************************************)
(* Delivery to the caller's channel (Spec)                                 *)
(***************************************************************************)
\* C37: the dispatcher never blocks while it delivers a response: whenever
\* a fanout is about to send to a registered channel the send can be done at
\* once, the channel being empty and never sent to before, whether its
\* caller is still waiting, is still in its first select or has returned
\* on cancellation; no channel ever holds or is sent more than one ADU.
C37_DeliveryNeverBlocks ==
  /\ \A s \in Runs :
       fanPc[s] = "deliver"
       => /\ fanCh[s] \in Calls /\ Registered(fanCh[s])
          /\ chanBuf[fanCh[s]] = <<>> /\ delivered[fanCh[s]] = 0
          /\ ENABLED FanoutDeliver(s)
  /\ \A c \in Calls : Len(chanBuf[c]) <= 1 /\ delivered[c] <= 1

\* A response was delivered to the channel of a call that had returned on
\* cancellation and is left there, and another to a call that is still in
\* its first select.
C37_Witness ==
  \E c, d \in Calls :
    /\ Cancelled(c) /\ chanBuf[c] # <<>> /\ delivered[c] = 1
    /\ pc[d] = "send" /\ chanBuf[d] # <<>> /\ delivered[d] = 1


(***************************************************************************)
(* Numeric and string field reads (RegSpec)                                *)
(***************************************************************************)
\* C32: the read of one numeric value requests exactly the registers that
\* cover its wire type (1 for 8 and 16 bits, 2 for 32, 4 for 64) and
\* returns the first bytes of the payload decoded big-endian, as two's
\* complement for a signed type and as a plain number for an unsigned one:
\* a register 0xFFFF is -1 as int16 and 65535 as uint16.
C32_NumericRead ==
  /\ [][(readPc = "idle" /\ readPc' # "idle"
         /\ readArgs'.t # "raw" /\ readArgs'.quantityT = 1)
        => LET t == readArgs'.t
               registers == CASE t \in {"int8", "uint8", "int16", "uint16"} -> 1
                              [] t \in {"int32", "uint32"} -> 2
                              [] t \in {"int64", "uint64"} -> 4
           IN /\ readArgs'.quantity = registers
              /\ readPc' = "call"
              /\ callReq'[Minted'][1].fc = FcReadHolding
              /\ callReq'[Minted'][1].data =
                   U16Bytes(readArgs'.address) \o <<0, registers>>]_vars
  /\ [][(readPc = "call" /\ readPc' # "call"
         /\ readArgs.t # "raw" /\ readArgs.quantityT = 1 /\ readRes'.err = "nil")
        => LET t == readArgs.t
               bytes == CASE t \in {"int8", "uint8"} -> 1
                          [] t \in {"int16", "uint16"} -> 2
                          [] t \in {"int32", "uint32"} -> 4
                          [] t \in {"int64", "uint64"} -> 8
               b == SubSeq(Tail(result[Minted].adu[1].data), 1, bytes)
               top == IF t \in {"int8", "int16", "int32", "int64"} /\ b[1] >= 128
                        THEN b[1] - 256 ELSE b[1]
           IN /\ Len(result[Minted].adu[1].data) = 1 + 2 * ((bytes + 1) \div 2)
              /\ readRes'.results = <<BigEndian([b EXCEPT ![1] = top])>>]_vars
  /\ [](/\ readPc = "returned" /\ readRes.err = "nil"
        /\ readArgs.t # "raw" /\ readArgs.quantityT = 1
        /\ readRes.values = <<255, 255>>
        => /\ readArgs.t = "int16" => readRes.results = <<-1>>
           /\ readArgs.t = "uint16" => readRes.results = <<65535>>)

\* The InternalTemperature field, declared i16, was read from a register
\* that holds 0xFFFF: one register was requested and the value is -1.
C32_Witness ==
  /\ qPc = "reading" /\ qSchema = DataSchema /\ qField = 3
  /\ readPc = "returned" /\ readRes.err = "nil"
  /\ readArgs.t = "int16" /\ readArgs.quantity = 1
  /\ readRes.values = <<255, 255>> /\ readRes.results = <<-1>>

\* C33: for a string field of N register-words (modbus_str_len 2N bytes)
\* the read requests N + 1 registers, which is 2 * (N + 1) bytes, and the
\* string is the first 2N of those bytes with the NULs at their end
\* removed.
C33_StringRead ==
  /\ [](/\ qPc = "reading" /\ qSchema[qField].kind = "string"
        /\ qSchema[qField].strLen % 2 = 0 /\ readPc # "idle"
        => LET N == qSchema[qField].strLen \div 2
           IN /\ readArgs.quantity = N + 1
              /\ readPc = "call"
                 => callReq[Minted][1].data =
                      U16Bytes(qSchema[qField].addr) \o <<0, N + 1>>
              /\ readPc = "returned" /\ readRes.err = "nil"
                 => Len(readRes.values) = 2 * (N + 1))
  /\ [][(/\ qPc = "reading" /\ qSchema[qField].kind = "string"
         /\ qSchema[qField].strLen % 2 = 0
         /\ readPc = "returned" /\ readRes.err = "nil" /\ qField' # qField)
        => LET N == qSchema[qField].strLen \div 2
           IN qRecord'[qField] = <<TrimRight(SubSeq(readRes.values, 1, 2 * N))>>]_vars

\* A string field of 2 words: 3 registers were read, the 2 bytes of the
\* third are not part of the string.
C33_Witness ==
  /\ qSchema = StringSchema /\ qField = 2
  /\ readArgs.quantity = 3
  /\ readRes.values = <<65, 66, 0, 0, 7, 7>>
  /\ qRecord[1] = <<<<65, 66>>>>


(***************************************************************************)
(* The reconnect delay (AgentSpec)                                         *)
(***************************************************************************)
\* C35: in one recovery episode the delay between reconnect attempts starts
\* at 1 second and never decreases; it changes only by doubling, only at
\* the 10th attempt made with the current delay and only while it is below
\* 5 minutes, so it never exceeds 10 minutes; every new episode starts at 1
\* second again.
C35_BackoffSchedule ==
  /\ [][agentPc = "reconnect" => backoff' = 1 /\ attempts' = 0]_vars
  /\ [][agentPc = "sleep"
        => /\ backoff' >= backoff
           /\ backoff' # backoff
              => backoff' = 2 * backoff /\ attempts = 9 /\ backoff < 5 * 60
           /\ (backoff < 5 * 60 /\ attempts = 9) => backoff' = 2 * backoff
           /\ (backoff < 5 * 60 /\ attempts < 9) => attempts' = attempts + 1
           /\ backoff >= 5 * 60 => backoff' = backoff]_vars
  /\ [](agentPc = "sleep" => backoff >= 1 /\ backoff <= 10 * 60 /\ attempts \in 0..9)

\* The agent sleeps with the largest delay, 512 seconds, in its second
\* recovery episode or a later one.
C35_Witness ==
  /\ agentPc = "sleep" /\ backoff = 512
  /\ Len(conns) >= 2


(***************************************************************************)
(* The records between the query loop and the publisher (PipeSpec)         *)
(***************************************************************************)
\* C36: the query loop never blocks on handing over a record: at a tick
\* whose query succeeded the record is queued when fewer than 10 records
\* wait in dataCh and is dropped otherwise; a dropped record is never
\* queued or published later, and the queued records are published in the
\* order they were queried, each at most once.
C36_QueueOrDrop ==
  /\ [](pipePc.query = "select" /\ polls < MaxRecords => ENABLED QueryTick(TRUE))
  /\ [][QueryTick(TRUE)
        => IF Len(dataCh) < 10
             THEN dataCh' = Append(dataCh, polls + 1) /\ dropped' = dropped
             ELSE dropped' = dropped \cup {polls + 1} /\ dataCh' = dataCh]_vars
  /\ [](LET line == published \o pubD \o dataCh
        IN /\ \A n \in dropped : \A i \in 1..Len(line) : line[i] # n
           /\ \A i, j \in 1..Len(line) : i < j => line[i] < line[j]
           /\ \A i \in 1..Len(published) : published[i] \in 1..polls
           /\ Len(dataCh) <= 10)
  /\ [][/\ dropped \subseteq dropped'
        /\ Len(published') >= Len(published)
        /\ SubSeq(published', 1, Len(published)) = published]_vars

\* The 11th record was dropped at the full channel and the 12th, queued
\* after the publisher had taken a record, was published after the 10th.
C36_Witness ==
  /\ dropped = {11}
  /\ published = <<1, 2, 3, 4, 5, 6, 7, 8, 9, 10, 12>>


(***************************************************************************)
(* Calls after the loops have stopped (LifeSpec)                           *)
(***************************************************************************)
\* C39 as stated: once the three loops of the multiplexer have exited,
\* every FunctionCall that is outstanding or is started afterwards returns
\* an error, no later than the expiry of its context, and nothing is written
\* to the socket.
C39_ErrorAfterStop ==
  /\ [][(rxPc[1] = "exited" /\ txPc[1] = "exited" /\ fanPc[1] = "exited")
        => /\ written' = written
           /\ \A c \in 1..LifeCalls :
                (pc[c] # "done" /\ pc'[c] = "done")
                => result'[c].adu = <<>> /\ result'[c].err # "none"]_vars
  /\ \A c \in 1..LifeCalls :
       (/\ rxPc[1] = "exited" /\ txPc[1] = "exited" /\ fanPc[1] = "exited"
        /\ pc[c] \notin {"idle", "done"} /\ CtxDone(c)) ~> pc[c] = "done"

\* C39, amended: once the three loops have exited nothing is written to the
\* socket; a call that is outstanding or started afterwards and has no
\* response in its channel takes no step but the registration of its entry
\* until its context is done, and then returns a cancellation error; a call
\* whose response was delivered before the loops stopped may return that
\* response instead. Every such call whose context is done returns.
C39_AfterStop ==
  /\ [][(rxPc[1] = "exited" /\ txPc[1] = "exited" /\ fanPc[1] = "exited")
        => /\ written' = written
           /\ \A c \in 1..LifeCalls :
                (pc[c] # "done" /\ pc'[c] = "done")
                => \/ /\ CtxDone(c)
                      /\ result'[c].adu = <<>> /\ result'[c].err # "none"
                   \/ /\ pc[c] = "await" /\ chanBuf[c] # <<>>
                      /\ result'[c] = [adu |-> chanBuf[c], err |-> "none"]]_vars
  /\ [](\A c \in 1..LifeCalls :
          (/\ rxPc[1] = "exited" /\ txPc[1] = "exited" /\ fanPc[1] = "exited"
           /\ Waiting(c) /\ chanBuf[c] = <<>> /\ ~CtxDone(c))
          => ~ENABLED CallStep(c))
  /\ \A c \in 1..LifeCalls :
       (/\ rxPc[1] = "exited" /\ txPc[1] = "exited" /\ fanPc[1] = "exited"
        /\ pc[c] \notin {"idle", "done"} /\ CtxDone(c)) ~> pc[c] = "done"

\* Run has returned with nothing written; the call is still in its first
\* select and its context has expired: it is about to return the error.
C39_Witness ==
  /\ runPc[1] = "returned"
  /\ pc[1] = "send" /\ CtxDone(1)
  /\ written = <<>>

=============================================================================
